---- MODULE Spec2Model ----
(***************************************************************************)
(* Model of the JTAG VPI server (src/sim/jtag_vpi_server.cpp): the        *)
(* connection / protocol state machine driven by poll(), the signal       *)
(* mailbox read by get_pending_signals() and refreshed by                 *)
(* update_signals(), and the socket it talks through.                     *)
(*                                                                         *)
(* Byte buffers are kept sparse: a buffer is a function from the offsets  *)
(* that hold a non-zero byte to that byte; every other offset reads 0.    *)
(* This is only a representation: offsets and sizes are the program's.    *)
(***************************************************************************)
EXTENDS Integers, Sequences, FiniteSets, TLC

VARIABLES srv, sock, hist, smr, twin, fn, sim

vars == <<srv, sock, hist, smr, twin, fn, sim>>

\* the variables the server model leaves alone
side == <<smr, twin, fn, sim>>

(***************************************************************************)
(* Sizes and limits of the program                                        *)
(***************************************************************************)
VPI_PKT_SIZE == 1036
MIN_CMD_SIZE == 8
MIN_RESP_SIZE == 4
BUF_SIZE == 512
MAX_SCAN_BITS == 4096
MAX_RETRIES == 1000
RESET_PULSES == 6
OFF_BUFFER_OUT == 4
OFF_BUFFER_IN == 516
OFF_LENGTH == 1028
OFF_NB_BITS == 1032
U32_HUGE == 2147483647

(***************************************************************************)
(* Bounds of the model                                                    *)
(***************************************************************************)
MaxCmds == 2
MaxConns == 2
MaxFaults == 1
MaxDecoded == 3
MaxPulses == 16
MaxAttempts == 1006

(***************************************************************************)
(* Sparse byte buffers                                                     *)
(***************************************************************************)
ZeroBuf == [i \in {} |-> 0]

Get(b, i) == IF i \in DOMAIN b THEN b[i] ELSE 0

Put(b, i, v) ==
    IF v = 0
    THEN [j \in (DOMAIN b) \ {i} |-> b[j]]
    ELSE [j \in (DOMAIN b) \cup {i} |-> IF j = i THEN v ELSE b[j]]

\* memcpy(dst + doff, src + soff, n)
Memcpy(dst, doff, src, soff, n) ==
    LET keep == {j \in DOMAIN dst : j < doff \/ j >= doff + n}
        new  == {k - soff + doff : k \in {k \in DOMAIN src : k >= soff /\ k < soff + n}}
    IN  [j \in keep \cup new |-> IF j \in new THEN src[j - doff + soff] ELSE dst[j]]

\* memset(dst, 0, n)
MemsetZero(dst, n) == [j \in {j \in DOMAIN dst : j >= n} |-> dst[j]]

\* a buffer from a sequence of bytes
BufOf(seq) == [i \in {k - 1 : k \in {k \in 1..Len(seq) : seq[k] # 0}} |-> seq[i + 1]]

\* bit operations on a byte
BitOfByte(byte, pos) == (byte \div (2 ^ pos)) % 2

SetBitOfByte(byte, pos) == IF BitOfByte(byte, pos) = 1 THEN byte ELSE byte + 2 ^ pos

ClearBitOfByte(byte, pos) == IF BitOfByte(byte, pos) = 1 THEN byte - 2 ^ pos ELSE byte

(***************************************************************************)
(* Byte streams (socket queues): len bytes, data sparse over 0..len-1     *)
(***************************************************************************)
EmptyStream == [len |-> 0, data |-> ZeroBuf]

StreamAppend(st, buf, off, n) ==
    [len |-> st.len + n, data |-> Memcpy(st.data, st.len, buf, off, n)]

StreamDrop(st, k) ==
    [len |-> st.len - k,
     data |-> [j \in {p - k : p \in {p \in DOMAIN st.data : p >= k}} |-> st.data[j + k]]]

StreamConcat(a, b) == StreamAppend(a, b.data, 0, b.len)

StreamOf(seq) == [len |-> Len(seq), data |-> BufOf(seq)]

Min(a, b) == IF a < b THEN a ELSE b

(***************************************************************************)
(* 32-bit fields.  A value of 2^31 or more is represented by U32_HUGE:    *)
(* the program only ever compares such a value against 0 and 4096.        *)
(***************************************************************************)
le32_to_host(b, off) ==
    IF Get(b, off + 3) >= 128 THEN U32_HUGE
    ELSE Get(b, off) + 256 * Get(b, off + 1) + 65536 * Get(b, off + 2)
         + 16777216 * Get(b, off + 3)

be32_to_host(b, off) ==
    IF Get(b, off) >= 128 THEN U32_HUGE
    ELSE 16777216 * Get(b, off) + 65536 * Get(b, off + 1) + 256 * Get(b, off + 2)
         + Get(b, off + 3)

host_to_le32(b, off, v) ==
    Put(Put(Put(Put(b, off, v % 256), off + 1, (v \div 256) % 256),
            off + 2, (v \div 65536) % 256), off + 3, (v \div 16777216) % 256)

(***************************************************************************)
(* The server object (the fields of class JtagVpiServer)                  *)
(***************************************************************************)
ProtocolMode == {"PROTO_UNKNOWN", "PROTO_OPENOCD_VPI", "PROTO_LEGACY_8BYTE"}

ScanState == {"SCAN_IDLE", "SCAN_RECEIVING_TMS", "SCAN_RECEIVING_TDI",
              "SCAN_PROCESSING", "SCAN_SENDING_TDO"}

Sf0State == {"SF0_IDLE", "SF0_SEND_TMS", "SF0_SEND_TDI"}

\* the constructor, followed by the driver's set_msb_first / set_protocol_mode /
\* set_mode calls made before the simulation loop starts
JtagVpiServer(proto, msb, mode) ==
    [protocol_mode |-> proto, client_sock |-> -1,
     current_tdo |-> 0, current_mode |-> 0, msb_first |-> msb,
     pending_tms |-> 0, pending_tdi |-> 0, pending_mode_select |-> mode,
     pending_tck_pulse |-> FALSE, reset_pulses_remaining |-> 0,
     pending_tckc_toggle |-> FALSE, tckc_toggle_consumed |-> FALSE,
     cmd_buf |-> ZeroBuf, cmd_bytes_received |-> 0,
     minimal_cmd_rx |-> ZeroBuf, minimal_rx_bytes |-> 0,
     vpi_cmd_rx |-> ZeroBuf, vpi_rx_bytes |-> 0,
     vpi_cmd_tx |-> ZeroBuf, vpi_tx_bytes |-> 0,
     vpi_tx_pending |-> FALSE, vpi_minimal_mode |-> FALSE,
     tms_seq_active |-> FALSE, tms_seq_num_bits |-> 0, tms_seq_bit_index |-> 0,
     tms_seq_buf |-> ZeroBuf,
     scan_state |-> "SCAN_IDLE", scan_is_legacy |-> TRUE,
     scan_num_bits |-> 0, scan_num_bytes |-> 0, scan_bit_index |-> 0,
     scan_tms_buf |-> ZeroBuf, scan_tdi_buf |-> ZeroBuf, scan_tdo_buf |-> ZeroBuf,
     scan_bytes_received |-> 0, scan_bytes_sent |-> 0,
     sf0_state |-> "SF0_IDLE", sf0_tms |-> 0, sf0_tdi |-> 0, sf0_tdo |-> 0,
     ub |-> FALSE]

(***************************************************************************)
(* The socket: the listening backlog, the connection's two directions     *)
(* and the peer.  rx holds the bytes delivered and not yet read, net the  *)
(* bytes the client wrote that are still in flight, tx_space the room in  *)
(* the send buffer, client_rx what the client has received.               *)
(***************************************************************************)
NoSocket ==
    [backlog |-> 0, peer |-> "none", kind |-> "none", rx |-> EmptyStream,
     net |-> EmptyStream, tx_space |-> 0, client_rx |-> EmptyStream]

(***************************************************************************)
(* History: what was decoded, posted and handed out (observation only)    *)
(***************************************************************************)
NoCmd == [dialect |-> "none", op |-> -1, nb_bits |-> 0, tms |-> 0, tdi |-> 0,
          out |-> ZeroBuf]

NoHist ==
    [cmds_left |-> MaxCmds, conns_left |-> MaxConns,
     faults_left |-> MaxFaults,
     cmd |-> NoCmd, handed |-> <<>>, owner |-> "none", owner_bit |-> -1,
     owner_seq |-> 0, reset_seq |-> 0,
     clobbered |-> FALSE, early |-> FALSE,
     detected |-> FALSE, torn |-> FALSE, waited |-> FALSE,
     delivered |-> FALSE, reply_at |-> -1, cmds_done |-> 0, stale |-> 0,
     oscan1_seen |-> FALSE, passed_over |-> FALSE, base |-> 0,
     partial |-> FALSE]

\* a request is posted and not yet handed to the driver
Unconsumed(s) ==
    s.pending_tck_pulse \/ s.pending_tckc_toggle \/ s.reset_pulses_remaining > 0

\* an engine posts a request: note who owns it and whether one was still unconsumed
NotePost(w, who, bit) ==
    [w EXCEPT !.hist.clobbered = @ \/ Unconsumed(w.srv),
              !.hist.owner = who, !.hist.owner_bit = bit,
              !.hist.owner_seq = w.hist.cmds_done,
              !.hist.reset_seq = IF who = "reset" THEN w.hist.cmds_done ELSE @]

\* the requests handed out so far that engine who posted for command number seq
HandedOf(handed, who, seq) ==
    SelectSeq(handed, LAMBDA h : h.owner = who /\ h.seq = seq)

\* a command is decoded: close the record of the previous one
NoteCmd(w, c) ==
    [w EXCEPT !.hist.cmd = c, !.hist.handed = <<>>,
              !.hist.early = @ \/ (w.hist.cmd.op = 0 /\ Unconsumed(w.srv)),
              !.hist.waited = FALSE, !.hist.delivered = FALSE,
              !.hist.reply_at = -1, !.hist.base = w.sock.client_rx.len,
              !.hist.partial = FALSE,
              !.hist.detected = TRUE, !.hist.cmds_done = @ + 1]

(***************************************************************************)
(* System calls on the client socket (all MSG_DONTWAIT)                   *)
(***************************************************************************)
recv(w, n) ==
    IF w.srv.client_sock < 0
    THEN [ret |-> -1, errno |-> "EBADF", data |-> ZeroBuf, w |-> w]
    ELSE IF n = 0
    THEN [ret |-> 0, errno |-> "none", data |-> ZeroBuf, w |-> w]
    ELSE IF w.sock.rx.len > 0
    THEN LET k == Min(n, w.sock.rx.len)
         IN  [ret |-> k, errno |-> "none",
              data |-> Memcpy(ZeroBuf, 0, w.sock.rx.data, 0, k),
              w |-> [w EXCEPT !.sock.rx = StreamDrop(w.sock.rx, k)]]
    ELSE IF w.sock.peer = "rst"
    THEN [ret |-> -1, errno |-> "ECONNRESET", data |-> ZeroBuf, w |-> w]
    ELSE IF w.sock.peer = "fin"
    THEN [ret |-> 0, errno |-> "none", data |-> ZeroBuf, w |-> w]
    ELSE [ret |-> -1, errno |-> "EAGAIN", data |-> ZeroBuf, w |-> w]

\* recv(..., MSG_DONTWAIT | MSG_PEEK) into a 16-byte buffer
recv_peek(w) ==
    LET r == recv(w, 16) IN [ret |-> r.ret, errno |-> r.errno]

send(w, buf, off, n) ==
    IF w.srv.client_sock < 0
    THEN [ret |-> -1, errno |-> "EBADF", w |-> w]
    ELSE IF w.sock.peer = "rst"
    THEN [ret |-> -1, errno |-> "EPIPE", w |-> w]
    ELSE IF w.sock.tx_space = 0
    THEN [ret |-> -1, errno |-> "EAGAIN", w |-> w]
    ELSE LET k == Min(n, w.sock.tx_space)
         IN  [ret |-> k, errno |-> "none",
              w |-> [w EXCEPT !.sock.tx_space = IF @ = VPI_PKT_SIZE THEN @ ELSE @ - k,
                              !.sock.client_rx = StreamAppend(@, buf, off, k)]]

WouldBlock(e) == e \in {"EAGAIN", "EWOULDBLOCK"}

(***************************************************************************)
(* close_connection                                                        *)
(***************************************************************************)
close_connection(w) ==
    LET w1 == IF w.srv.client_sock >= 0
              THEN [w EXCEPT !.srv.client_sock = -1,
                             !.sock.peer = "none", !.sock.kind = "none",
                             !.sock.rx = EmptyStream, !.sock.net = EmptyStream,
                             !.sock.tx_space = 0]
              ELSE w
    IN  [w1 EXCEPT !.srv.protocol_mode = "PROTO_UNKNOWN",
                   !.srv.vpi_rx_bytes = 0,
                   !.srv.vpi_tx_pending = FALSE,
                   !.srv.vpi_minimal_mode = FALSE,
                   !.srv.scan_state = "SCAN_IDLE",
                   !.srv.tms_seq_active = FALSE,
                   !.hist.torn = TRUE, !.hist.detected = FALSE]

(***************************************************************************)
(* The signal mailbox                                                      *)
(***************************************************************************)
update_signals(w, tdo, mode) ==
    [w EXCEPT !.srv.current_tdo = tdo, !.srv.current_mode = mode]

\* the request handed to the driver, or ok = FALSE, and the server afterwards
get_pending_signals(w) ==
    LET s == w.srv IN
    IF s.reset_pulses_remaining > 0
    THEN [ok |-> TRUE, tms |-> 1, tdi |-> 0, mode_sel |-> s.pending_mode_select,
          tck_pulse |-> TRUE, tckc_toggle |-> FALSE, owner |-> "reset", bit |-> -1,
          seq |-> w.hist.reset_seq,
          w |-> [w EXCEPT !.srv.reset_pulses_remaining = @ - 1]]
    ELSE LET has_signal_change == s.pending_tck_pulse \/ s.pending_tckc_toggle
             has_mode_change == s.pending_mode_select # s.current_mode
         IN  IF ~has_signal_change /\ ~has_mode_change
             THEN [ok |-> FALSE, tms |-> 0, tdi |-> 0, mode_sel |-> 0,
                   tck_pulse |-> FALSE, tckc_toggle |-> FALSE, owner |-> "none",
                   bit |-> -1, seq |-> 0, w |-> w]
             ELSE [ok |-> TRUE, tms |-> s.pending_tms, tdi |-> s.pending_tdi,
                   mode_sel |-> s.pending_mode_select,
                   tck_pulse |-> s.pending_tck_pulse,
                   tckc_toggle |-> s.pending_tckc_toggle,
                   owner |-> IF has_signal_change THEN w.hist.owner ELSE "mode",
                   bit |-> IF has_signal_change THEN w.hist.owner_bit ELSE -1,
                   seq |-> IF has_signal_change THEN w.hist.owner_seq ELSE 0,
                   w |-> [w EXCEPT !.srv.pending_tck_pulse = FALSE,
                                   !.srv.tckc_toggle_consumed =
                                       IF s.pending_tckc_toggle THEN TRUE ELSE @,
                                   !.srv.pending_tckc_toggle = FALSE,
                                   !.hist.owner = "none", !.hist.owner_bit = -1]]

(***************************************************************************)
(* send_minimal_response: the 4-byte response of the minimal dialect.     *)
(* The retry loop runs against a socket whose state does not change       *)
(* during the call, so an EAGAIN repeats until the retry budget is spent. *)
(***************************************************************************)
RECURSIVE send_minimal_loop(_, _, _, _)
send_minimal_loop(w, resp, sent_total, retry_count) ==
    IF ~(sent_total < MIN_RESP_SIZE /\ retry_count < MAX_RETRIES)
    THEN IF sent_total < MIN_RESP_SIZE
         THEN w
         ELSE [w EXCEPT !.srv.vpi_minimal_mode = TRUE]
    ELSE LET r == send(w, resp, sent_total, MIN_RESP_SIZE - sent_total)
         IN  IF r.ret > 0
             THEN send_minimal_loop(r.w, resp, sent_total + r.ret, retry_count)
             ELSE IF WouldBlock(r.errno)
             THEN r.w  \* retry_count reaches MAX_RETRIES: return, connection kept
             ELSE IF r.errno = "EINTR"
             THEN send_minimal_loop(r.w, resp, sent_total, retry_count + 1)
             ELSE close_connection(r.w)

\* a variant that gives the connection up when the response did not go out whole
SendMinimalOrClose(w, response, tdo_val, mode, status) ==
    LET w1 == send_minimal_loop(w, BufOf(<<response, tdo_val, mode, status>>), 0, 0)
    IN  IF w1.sock.client_rx.len < w.sock.client_rx.len + MIN_RESP_SIZE
        THEN close_connection(w1)
        ELSE w1

send_minimal_response(w, response, tdo_val, mode, status) ==
    send_minimal_loop(w, BufOf(<<response, tdo_val, mode, status>>), 0, 0)

(***************************************************************************)
(* Bit addressing of the scan buffers                                     *)
(***************************************************************************)
BitPosLsbOnly(i, msb) == i % 8

BitPos(i, msb) == IF msb THEN 7 - (i % 8) ELSE i % 8

ExtractBit(buf, i, msb) == BitOfByte(Get(buf, i \div 8), BitPos(i, msb))

StoreBit(buf, i, msb, v) ==
    LET old == Get(buf, i \div 8)
    IN  Put(buf, i \div 8,
            IF v # 0 THEN SetBitOfByte(old, BitPos(i, msb))
                     ELSE ClearBitOfByte(old, BitPos(i, msb)))

PrevBitOffByOne(bit_index) == bit_index

\* the scan bit whose TDO is captured when the engine is at bit_index
PrevBit(bit_index) == bit_index - 1

\* scan_tms_buf of a full-dialect scan: all 0, the last bit 1 when cmd == 3
FlipTmsBuf(buf, cmd, nb_bits, num_bytes) ==
    LET z == MemsetZero(buf, num_bytes)
    IN  IF cmd = 3 /\ nb_bits > 0
        THEN LET last == nb_bits - 1
             IN  Put(z, last \div 8, SetBitOfByte(Get(z, last \div 8), last % 8))
        ELSE z

(***************************************************************************)
(* process_vpi_packet: one decoded command of the OpenOCD dialects        *)
(***************************************************************************)
\* a variant whose response header does not carry the command code
PrepareTxNoEcho(cmd, length, nb_bits) ==
    host_to_le32(host_to_le32(ZeroBuf, OFF_LENGTH, length), OFF_NB_BITS, nb_bits)

PrepareTx(cmd, length, nb_bits) ==
    host_to_le32(host_to_le32(host_to_le32(ZeroBuf, 0, cmd), OFF_LENGTH, length),
                 OFF_NB_BITS, nb_bits)

vpi_cmd_reset(w, cmd) ==
    LET w1 == [NotePost(w, "reset", -1) EXCEPT
                   !.srv.reset_pulses_remaining = RESET_PULSES,
                   !.srv.pending_tms = 1, !.srv.pending_tdi = 0,
                   !.srv.pending_tck_pulse = TRUE]
    IN  IF w1.srv.vpi_minimal_mode
        THEN LET w2 == send_minimal_response(w1, 0, 0, w1.srv.current_mode, 0)
             IN  [w2 EXCEPT !.srv.reset_pulses_remaining = 0,
                            !.srv.pending_tck_pulse = FALSE,
                            !.hist.owner = IF w2.srv.pending_tckc_toggle THEN @ ELSE "none"]
        ELSE [w1 EXCEPT !.srv.vpi_cmd_tx = PrepareTx(cmd, 0, 0),
                        !.srv.vpi_tx_pending = TRUE, !.srv.vpi_tx_bytes = 0]

vpi_cmd_tms_seq(w, cmd, nb_bits) ==
    LET nb_bytes == IF nb_bits > MAX_SCAN_BITS THEN BUF_SIZE
                    ELSE Min((nb_bits + 7) \div 8, BUF_SIZE)
        w1 == [w EXCEPT !.srv.tms_seq_active = TRUE,
                        !.srv.tms_seq_num_bits = nb_bits,
                        !.srv.tms_seq_bit_index = 0,
                        !.srv.tms_seq_buf =
                            Memcpy(@, 0, w.srv.vpi_cmd_rx, OFF_BUFFER_OUT, nb_bytes)]
    IN  IF ~w1.srv.vpi_minimal_mode
        THEN [w1 EXCEPT !.srv.vpi_cmd_tx = PrepareTx(cmd, 0, 0),
                        !.srv.vpi_tx_pending = TRUE, !.srv.vpi_tx_bytes = 0]
        ELSE w1

vpi_cmd_scan(w, cmd, nb_bits) ==
    IF w.srv.vpi_minimal_mode /\ cmd = 3
    THEN send_minimal_response(w, 0, w.srv.current_tdo, w.srv.current_mode, 0)
    ELSE IF w.srv.vpi_minimal_mode
    THEN LET w1 == send_minimal_response(w, 0, w.srv.current_tdo, w.srv.current_mode, 0)
         IN  IF nb_bits = 0 \/ nb_bits > MAX_SCAN_BITS
             THEN w1
             ELSE [w1 EXCEPT !.srv.scan_num_bits = nb_bits,
                             !.srv.scan_num_bytes = (nb_bits + 7) \div 8,
                             !.srv.scan_bit_index = 0,
                             !.srv.scan_bytes_received = 0,
                             !.srv.scan_bytes_sent = 0,
                             !.srv.scan_tms_buf = ZeroBuf,
                             !.srv.scan_tdi_buf = ZeroBuf,
                             !.srv.scan_tdo_buf = ZeroBuf,
                             !.srv.scan_state = "SCAN_RECEIVING_TMS"]
    ELSE IF nb_bits > MAX_SCAN_BITS
    THEN \* memset / memcpy of more than 512 bytes into the 512-byte scan buffers
         [w EXCEPT !.srv.ub = TRUE]
    ELSE LET num_bytes == (nb_bits + 7) \div 8
         IN  [w EXCEPT !.srv.scan_num_bits = nb_bits,
                       !.srv.scan_num_bytes = num_bytes,
                       !.srv.scan_bit_index = 0,
                       !.srv.scan_bytes_received = num_bytes,
                       !.srv.scan_bytes_sent = 0,
                       !.srv.scan_is_legacy = FALSE,
                       !.srv.scan_tdo_buf = ZeroBuf,
                       !.srv.scan_tms_buf = FlipTmsBuf(@, cmd, nb_bits, num_bytes),
                       !.srv.scan_tdi_buf =
                           Memcpy(@, 0, w.srv.vpi_cmd_rx, OFF_BUFFER_OUT, num_bytes),
                       !.srv.scan_state = "SCAN_PROCESSING",
                       !.srv.vpi_cmd_tx = PrepareTx(cmd, num_bytes, nb_bits),
                       !.srv.vpi_tx_bytes = 0,
                       !.srv.vpi_tx_pending = FALSE]

Oscan1KeepsMode(w) ==
    LET b0 == Get(w.srv.vpi_cmd_rx, OFF_BUFFER_OUT)
        tdi == BitOfByte(b0, 0)
        tms == BitOfByte(b0, 1)
    IN  [NotePost(w, "sf0", 0) EXCEPT
            !.srv.pending_tms = tms,
            !.srv.pending_tdi = 0,
            !.srv.pending_tckc_toggle = TRUE,
            !.srv.sf0_state = "SF0_SEND_TMS",
            !.srv.sf0_tms = tms, !.srv.sf0_tdi = tdi, !.srv.sf0_tdo = 0,
            !.srv.vpi_cmd_tx = PrepareTx(5, 1, 2),
            !.srv.vpi_tx_pending = FALSE, !.srv.vpi_tx_bytes = 0,
            !.hist.oscan1_seen = TRUE]

vpi_cmd_oscan1(w) ==
    LET b0 == Get(w.srv.vpi_cmd_rx, OFF_BUFFER_OUT)
        tdi == BitOfByte(b0, 0)
        tms == BitOfByte(b0, 1)
    IN  [NotePost(w, "sf0", 0) EXCEPT
            !.srv.pending_mode_select = 1,
            !.srv.pending_tms = tms,
            !.srv.pending_tdi = 0,
            !.srv.pending_tckc_toggle = TRUE,
            !.srv.sf0_state = "SF0_SEND_TMS",
            !.srv.sf0_tms = tms, !.srv.sf0_tdi = tdi, !.srv.sf0_tdo = 0,
            !.srv.vpi_cmd_tx = PrepareTx(5, 1, 2),
            !.srv.vpi_tx_pending = FALSE, !.srv.vpi_tx_bytes = 0,
            !.hist.oscan1_seen = TRUE]

\* a mutation of min_cmd_length: the length field is read big-endian only
MinCmdLengthBigEndian(hdr) == be32_to_host(hdr, 4)

\* process_vpi_packet, minimal mode: the bit count taken from bytes 4..7
min_cmd_length(hdr) ==
    LET len_be == be32_to_host(hdr, 4)
        len_le == le32_to_host(hdr, 4)
    IN  IF len_be <= MAX_SCAN_BITS THEN len_be ELSE len_le

process_vpi_packet(w) ==
    LET s == w.srv
        min == s.vpi_minimal_mode
        hdr == IF s.minimal_rx_bytes >= MIN_CMD_SIZE THEN s.minimal_cmd_rx
               ELSE s.vpi_cmd_rx
        cmd == IF min THEN Get(hdr, 0) ELSE le32_to_host(s.vpi_cmd_rx, 0)
        length == IF min THEN min_cmd_length(hdr)
                  ELSE le32_to_host(s.vpi_cmd_rx, OFF_LENGTH)
        nb_bits == IF min THEN length ELSE le32_to_host(s.vpi_cmd_rx, OFF_NB_BITS)
        b0 == Get(s.vpi_cmd_rx, OFF_BUFFER_OUT)
        w0 == NoteCmd(w, [dialect |-> IF min THEN "minimal" ELSE "full",
                          op |-> cmd, nb_bits |-> nb_bits,
                          tms |-> (b0 \div 2) % 2, tdi |-> b0 % 2,
                          out |-> Memcpy(ZeroBuf, 0, s.vpi_cmd_rx, OFF_BUFFER_OUT, BUF_SIZE)])
    IN  CASE cmd = 0 -> vpi_cmd_reset(w0, cmd)
          [] cmd = 1 -> vpi_cmd_tms_seq(w0, cmd, nb_bits)
          [] cmd \in {2, 3} -> vpi_cmd_scan(w0, cmd, nb_bits)
          [] cmd = 4 -> close_connection(w0)
          [] cmd = 5 -> vpi_cmd_oscan1(w0)
          [] OTHER -> w0

(***************************************************************************)
(* continue_scan: the per-bit scan engine                                 *)
(***************************************************************************)
scan_receive(w, which, next) ==
    LET s == w.srv
        r == recv(w, s.scan_num_bytes - s.scan_bytes_received)
    IN  IF r.ret > 0
        THEN LET got == s.scan_bytes_received + r.ret
                 w1 == IF which = "tms"
                       THEN [r.w EXCEPT !.srv.scan_tms_buf =
                                Memcpy(@, s.scan_bytes_received, r.data, 0, r.ret)]
                       ELSE [r.w EXCEPT !.srv.scan_tdi_buf =
                                Memcpy(@, s.scan_bytes_received, r.data, 0, r.ret)]
             IN  IF got >= s.scan_num_bytes
                 THEN IF which = "tms"
                      THEN [w1 EXCEPT !.srv.scan_bytes_received = 0,
                                      !.srv.scan_state = next]
                      ELSE [w1 EXCEPT !.srv.scan_bytes_received = got,
                                      !.srv.scan_bit_index = 0,
                                      !.srv.scan_state = next]
                 ELSE [w1 EXCEPT !.srv.scan_bytes_received = got]
        ELSE IF r.ret < 0 /\ ~WouldBlock(r.errno)
        THEN close_connection([r.w EXCEPT !.srv.scan_state = "SCAN_IDLE"])
        ELSE r.w

scan_processing(w) ==
    LET s == w.srv IN
    IF s.pending_tck_pulse
    THEN [w EXCEPT !.hist.waited = TRUE]
    ELSE LET tdo1 == IF s.scan_bit_index > 0
                     THEN StoreBit(s.scan_tdo_buf, PrevBit(s.scan_bit_index),
                                   s.msb_first, s.current_tdo)
                     ELSE s.scan_tdo_buf
         IN  IF s.scan_bit_index < s.scan_num_bits
             THEN [NotePost(w, "scan", s.scan_bit_index) EXCEPT
                      !.srv.scan_tdo_buf = tdo1,
                      !.srv.pending_tms =
                          ExtractBit(s.scan_tms_buf, s.scan_bit_index, s.msb_first),
                      !.srv.pending_tdi =
                          ExtractBit(s.scan_tdi_buf, s.scan_bit_index, s.msb_first),
                      !.srv.pending_tck_pulse = TRUE,
                      !.srv.scan_bit_index = @ + 1]
             ELSE LET tdo2 == IF s.scan_bit_index > 0
                              THEN StoreBit(tdo1, s.scan_bit_index - 1,
                                            s.msb_first, s.current_tdo)
                              ELSE tdo1
                  IN  IF s.scan_is_legacy
                      THEN [w EXCEPT !.srv.scan_tdo_buf = tdo2,
                                     !.srv.scan_bytes_sent = 0,
                                     !.srv.scan_state = "SCAN_SENDING_TDO"]
                      ELSE [w EXCEPT !.srv.scan_tdo_buf = tdo2,
                                     !.srv.scan_state = "SCAN_IDLE"]

scan_sending_tdo(w) ==
    LET s == w.srv
        r == send(w, s.scan_tdo_buf, s.scan_bytes_sent,
                  s.scan_num_bytes - s.scan_bytes_sent)
    IN  IF r.ret > 0
        THEN IF s.scan_bytes_sent + r.ret >= s.scan_num_bytes
             THEN [r.w EXCEPT !.srv.scan_bytes_sent = @ + r.ret,
                              !.srv.scan_state = "SCAN_IDLE",
                              !.hist.delivered = TRUE,
                              !.hist.reply_at =
                                  r.w.sock.client_rx.len - s.scan_num_bytes]
             ELSE [r.w EXCEPT !.srv.scan_bytes_sent = @ + r.ret,
                              !.hist.partial = TRUE]
        ELSE IF r.ret < 0 /\ ~WouldBlock(r.errno)
        THEN IF r.errno = "EINTR"
             THEN r.w
             ELSE close_connection([r.w EXCEPT !.srv.scan_state = "SCAN_IDLE"])
        ELSE r.w

continue_scan(w) ==
    CASE w.srv.scan_state = "SCAN_RECEIVING_TMS" ->
             scan_receive(w, "tms", "SCAN_RECEIVING_TDI")
      [] w.srv.scan_state = "SCAN_RECEIVING_TDI" ->
             scan_receive(w, "tdi", "SCAN_PROCESSING")
      [] w.srv.scan_state = "SCAN_PROCESSING" -> scan_processing(w)
      [] w.srv.scan_state = "SCAN_SENDING_TDO" -> scan_sending_tdo(w)
      [] OTHER -> [w EXCEPT !.srv.scan_state = "SCAN_IDLE"]

(***************************************************************************)
(* continue_vpi_work: transmit, OScan1 SF0, TMS sequence, scan, receive   *)
(***************************************************************************)
\* a variant that sends the rest of a response from the start of the buffer
VpiFlushFromStart(w) ==
    LET s == w.srv IN
    IF s.vpi_tx_pending /\ s.client_sock >= 0
    THEN LET r == send(w, s.vpi_cmd_tx, 0, VPI_PKT_SIZE - s.vpi_tx_bytes)
         IN  IF r.ret > 0
             THEN IF s.vpi_tx_bytes + r.ret >= VPI_PKT_SIZE
                  THEN [closed |-> FALSE,
                        w |-> [r.w EXCEPT !.srv.vpi_tx_pending = FALSE,
                                          !.srv.vpi_tx_bytes = 0,
                                          !.hist.delivered = TRUE,
                                          !.hist.reply_at =
                                              r.w.sock.client_rx.len - VPI_PKT_SIZE
                                                  + OFF_BUFFER_IN]]
                  ELSE [closed |-> FALSE,
                        w |-> [r.w EXCEPT !.srv.vpi_tx_bytes = @ + r.ret,
                                          !.hist.partial = TRUE]]
             ELSE IF r.ret < 0 /\ ~WouldBlock(r.errno)
             THEN [closed |-> TRUE, w |-> close_connection(r.w)]
             ELSE [closed |-> FALSE, w |-> r.w]
    ELSE [closed |-> FALSE, w |-> w]

\* 1) flush a pending response; closed = TRUE when the connection was torn down
vpi_flush(w) ==
    LET s == w.srv IN
    IF s.vpi_tx_pending /\ s.client_sock >= 0
    THEN LET r == send(w, s.vpi_cmd_tx, s.vpi_tx_bytes, VPI_PKT_SIZE - s.vpi_tx_bytes)
         IN  IF r.ret > 0
             THEN IF s.vpi_tx_bytes + r.ret >= VPI_PKT_SIZE
                  THEN [closed |-> FALSE,
                        w |-> [r.w EXCEPT !.srv.vpi_tx_pending = FALSE,
                                          !.srv.vpi_tx_bytes = 0,
                                          !.hist.delivered = TRUE,
                                          !.hist.reply_at =
                                              r.w.sock.client_rx.len - VPI_PKT_SIZE
                                                  + OFF_BUFFER_IN]]
                  ELSE [closed |-> FALSE,
                        w |-> [r.w EXCEPT !.srv.vpi_tx_bytes = @ + r.ret,
                                          !.hist.partial = TRUE]]
             ELSE IF r.ret < 0 /\ ~WouldBlock(r.errno)
             THEN [closed |-> TRUE, w |-> close_connection(r.w)]
             ELSE [closed |-> FALSE, w |-> r.w]
    ELSE [closed |-> FALSE, w |-> w]

Sf0CaptureNothing(tdo) == 0

\* the TDO captured after the falling edge
Sf0Capture(tdo) == tdo % 2

\* 2) the SF0 state machine (entered with sf0_state # SF0_IDLE)
sf0_step(w) ==
    LET s == w.srv IN
    IF s.pending_tckc_toggle \/ ~s.tckc_toggle_consumed
    THEN [w EXCEPT !.hist.waited = TRUE]
    ELSE IF s.sf0_state = "SF0_SEND_TMS"
    THEN [NotePost(w, "sf0", 1) EXCEPT
             !.srv.pending_tdi = s.sf0_tdi,
             !.srv.pending_tms = 0,
             !.srv.pending_tckc_toggle = TRUE,
             !.srv.tckc_toggle_consumed = FALSE,
             !.srv.sf0_state = "SF0_SEND_TDI"]
    ELSE [w EXCEPT !.srv.sf0_tdo = Sf0Capture(s.current_tdo),
                   !.srv.vpi_cmd_tx = Put(@, OFF_BUFFER_IN, Sf0Capture(s.current_tdo)),
                   !.srv.vpi_tx_pending = TRUE,
                   !.srv.vpi_tx_bytes = 0,
                   !.srv.sf0_state = "SF0_IDLE"]

\* 3) the TMS sequence (entered with tms_seq_active)
tms_seq_step(w) ==
    LET s == w.srv IN
    IF s.pending_tck_pulse
    THEN [w EXCEPT !.hist.waited = TRUE]
    ELSE IF s.tms_seq_bit_index < s.tms_seq_num_bits
    THEN [NotePost(w, "tms_seq", s.tms_seq_bit_index) EXCEPT
             !.srv.pending_tms =
                 BitOfByte(Get(s.tms_seq_buf, s.tms_seq_bit_index \div 8),
                           s.tms_seq_bit_index % 8),
             !.srv.pending_tdi = 0,
             !.srv.pending_tck_pulse = TRUE,
             !.srv.tms_seq_bit_index = @ + 1]
    ELSE [w EXCEPT !.srv.tms_seq_active = FALSE]

\* 4) the scan engine, then the full response once it reaches SCAN_IDLE
vpi_scan_step(w) ==
    IF w.srv.scan_state = "SCAN_PROCESSING" /\ w.srv.pending_tck_pulse
    THEN [w EXCEPT !.hist.waited = TRUE]
    ELSE LET w1 == continue_scan(w)
         IN  IF w1.srv.scan_state = "SCAN_IDLE" /\ ~w1.srv.vpi_tx_pending
                /\ w1.srv.client_sock >= 0
             THEN [w1 EXCEPT !.srv.vpi_cmd_tx =
                                 Memcpy(@, OFF_BUFFER_IN, w1.srv.scan_tdo_buf, 0,
                                        w1.srv.scan_num_bytes),
                             !.srv.vpi_tx_pending = TRUE,
                             !.srv.vpi_tx_bytes = 0]
             ELSE w1

\* a complete minimal command is in minimal_cmd_rx
minimal_dispatch(w) ==
    [process_vpi_packet(w) EXCEPT !.srv.minimal_rx_bytes = 0,
                                  !.srv.minimal_cmd_rx = ZeroBuf]

\* a complete 1036-byte packet is in vpi_cmd_rx
full_dispatch(w) ==
    [process_vpi_packet(w) EXCEPT !.srv.vpi_rx_bytes = 0,
                                  !.srv.vpi_cmd_rx = ZeroBuf]

\* receive of the minimal dialect: fill minimal_cmd_rx, then dispatch
vpi_recv_minimal(w) ==
    LET s == w.srv IN
    IF s.minimal_rx_bytes < MIN_CMD_SIZE
    THEN LET r == recv(w, MIN_CMD_SIZE - s.minimal_rx_bytes)
         IN  IF r.ret < 0
             THEN IF ~WouldBlock(r.errno) /\ r.errno \notin {"EINTR", "ETIMEDOUT"}
                  THEN close_connection(r.w)
                  ELSE r.w
             ELSE IF r.ret = 0
             THEN close_connection(r.w)
             ELSE LET w1 == [r.w EXCEPT
                                !.srv.minimal_cmd_rx =
                                    Memcpy(@, s.minimal_rx_bytes, r.data, 0, r.ret),
                                !.srv.minimal_rx_bytes = @ + r.ret]
                  IN  IF w1.srv.minimal_rx_bytes < MIN_CMD_SIZE
                      THEN w1
                      ELSE minimal_dispatch(w1)
    ELSE minimal_dispatch(w)

\* the rest of the full packet, then dispatch
vpi_recv_rest(w) ==
    LET s == w.srv IN
    IF ~s.vpi_minimal_mode /\ s.vpi_rx_bytes < VPI_PKT_SIZE
    THEN LET r == recv(w, VPI_PKT_SIZE - s.vpi_rx_bytes)
         IN  IF r.ret < 0
             THEN IF ~WouldBlock(r.errno) /\ r.errno \notin {"EINTR", "ETIMEDOUT"}
                  THEN close_connection(r.w)
                  ELSE r.w
             ELSE IF r.ret = 0
             THEN close_connection(r.w)
             ELSE LET w1 == [r.w EXCEPT
                                !.srv.vpi_cmd_rx =
                                    Memcpy(@, s.vpi_rx_bytes, r.data, 0, r.ret),
                                !.srv.vpi_rx_bytes = @ + r.ret]
                  IN  IF w1.srv.vpi_rx_bytes < VPI_PKT_SIZE
                      THEN w1
                      ELSE full_dispatch(w1)
    ELSE full_dispatch(w)

\* with at least 8 bytes buffered: look for more data, re-detect the minimal dialect
vpi_recv_peek(w) ==
    LET s == w.srv IN
    IF s.vpi_rx_bytes >= 8 /\ s.vpi_rx_bytes < VPI_PKT_SIZE
    THEN LET p == recv_peek(w)
         IN  IF s.vpi_rx_bytes = 8 /\ p.ret <= 0 /\ (WouldBlock(p.errno) \/ p.ret = 0)
             THEN minimal_dispatch(
                      [w EXCEPT !.srv.vpi_minimal_mode = TRUE,
                                !.srv.minimal_cmd_rx =
                                    Memcpy(@, 0, s.vpi_cmd_rx, 0, MIN_CMD_SIZE),
                                !.srv.minimal_rx_bytes = MIN_CMD_SIZE,
                                !.srv.vpi_rx_bytes = 0,
                                !.srv.vpi_cmd_rx = ZeroBuf])
             ELSE IF p.ret < 0 /\ ~WouldBlock(p.errno)
             THEN close_connection(w)
             ELSE vpi_recv_rest([w EXCEPT !.srv.vpi_minimal_mode = FALSE])
    ELSE vpi_recv_rest(w)

\* receive of the full dialect: at least 8 bytes, then the peek, then the rest
vpi_recv_full(w) ==
    LET s == w.srv IN
    IF s.vpi_rx_bytes < 8
    THEN LET r == recv(w, VPI_PKT_SIZE - s.vpi_rx_bytes)
         IN  IF r.ret < 0
             THEN IF ~WouldBlock(r.errno) THEN close_connection(r.w) ELSE r.w
             ELSE IF r.ret = 0
             THEN close_connection(r.w)
             ELSE LET w1 == [r.w EXCEPT
                                !.srv.vpi_cmd_rx =
                                    Memcpy(@, s.vpi_rx_bytes, r.data, 0, r.ret),
                                !.srv.vpi_rx_bytes = @ + r.ret]
                  IN  IF w1.srv.vpi_rx_bytes < 8 THEN w1 ELSE vpi_recv_peek(w1)
    ELSE vpi_recv_peek(w)

\* a variant that reads the next frame whether or not a response is still queued
ContinueVpiWorkReadsAnyway(w) ==
    LET f == vpi_flush(w)
        w1 == f.w
    IN  IF f.closed THEN w1
        ELSE IF w1.srv.sf0_state # "SF0_IDLE" THEN sf0_step(w1)
        ELSE IF w1.srv.tms_seq_active THEN tms_seq_step(w1)
        ELSE IF w1.srv.scan_state # "SCAN_IDLE" THEN vpi_scan_step(w1)
        ELSE IF w1.srv.client_sock >= 0
        THEN IF w1.srv.vpi_minimal_mode THEN vpi_recv_minimal(w1)
             ELSE vpi_recv_full(w1)
        ELSE w1

continue_vpi_work(w) ==
    LET f == vpi_flush(w)
        w1 == f.w
    IN  IF f.closed THEN w1
        ELSE IF w1.srv.sf0_state # "SF0_IDLE" THEN sf0_step(w1)
        ELSE IF w1.srv.tms_seq_active THEN tms_seq_step(w1)
        ELSE IF w1.srv.scan_state # "SCAN_IDLE" THEN vpi_scan_step(w1)
        ELSE IF ~w1.srv.vpi_tx_pending /\ w1.srv.client_sock >= 0
        THEN IF w1.srv.vpi_minimal_mode THEN vpi_recv_minimal(w1)
             ELSE vpi_recv_full(w1)
        ELSE w1

(***************************************************************************)
(* The legacy 8-byte dialect: process_scan and process_command            *)
(***************************************************************************)
process_scan(w, num_bits) ==
    IF num_bits = 0 \/ num_bits > MAX_SCAN_BITS
    THEN w
    ELSE [w EXCEPT !.srv.scan_num_bits = num_bits,
                   !.srv.scan_num_bytes = (num_bits + 7) \div 8,
                   !.srv.scan_bit_index = 0,
                   !.srv.scan_bytes_received = 0,
                   !.srv.scan_bytes_sent = 0,
                   !.srv.scan_is_legacy = TRUE,
                   !.srv.scan_tms_buf = ZeroBuf,
                   !.srv.scan_tdi_buf = ZeroBuf,
                   !.srv.scan_tdo_buf = ZeroBuf,
                   !.srv.scan_state = "SCAN_RECEIVING_TMS"]

\* the one send of the 4-byte vpi_resp, retried once after EAGAIN
legacy_send_resp(w, response, tdo_val) ==
    IF w.srv.client_sock >= 0
    THEN LET resp == BufOf(<<response, tdo_val, 0, 0>>)
             r == send(w, resp, 0, MIN_RESP_SIZE)
         IN  IF r.ret < 0
             THEN IF WouldBlock(r.errno)
                  THEN LET r2 == send(r.w, resp, 0, MIN_RESP_SIZE)
                       IN  IF r2.ret < 0 THEN close_connection(r2.w) ELSE r2.w
                  ELSE close_connection(r.w)
             ELSE r.w
    ELSE w

\* cmd is the 8-byte header cmd_buf
process_command(w, cmd) ==
    LET op == Get(cmd, 0)
        length == be32_to_host(cmd, 4)
        w0 == NoteCmd(w, [dialect |-> "legacy", op |-> op, nb_bits |-> length,
                          tms |-> 0, tdi |-> 0, out |-> ZeroBuf])
    IN  IF op > 15 \/ (length > MAX_SCAN_BITS /\ op # 2)
        THEN w0   \* resp->response = 1, returned without being sent
        ELSE CASE op = 0 ->
                    legacy_send_resp(
                        [NotePost(w0, "reset", -1) EXCEPT
                            !.srv.reset_pulses_remaining = RESET_PULSES,
                            !.srv.pending_tms = 1, !.srv.pending_tdi = 0,
                            !.srv.pending_tck_pulse = TRUE],
                        0, w0.srv.current_tdo)
               [] op = 2 ->
                    legacy_send_resp(process_scan(w0, length), 0, w0.srv.current_tdo)
               [] op = 3 -> legacy_send_resp(w0, 0, 0)
               [] op = 5 -> legacy_send_resp(w0, 0, w0.srv.current_tdo)
               [] OTHER -> legacy_send_resp(w0, 1, 0)

(***************************************************************************)
(* poll                                                                    *)
(***************************************************************************)
\* accept() on the listening socket
poll_accept(w) ==
    IF w.sock.backlog > 0
    THEN LET w1 == IF w.sock.peer = "none"
                   THEN \* the connection that waited in the backlog
                        [w EXCEPT !.sock.peer = "open", !.sock.kind = "short",
                                  !.sock.tx_space = VPI_PKT_SIZE,
                                  !.sock.client_rx = EmptyStream,
                                  !.hist.delivered = FALSE, !.hist.reply_at = -1]
                   ELSE w
         IN  [w1 EXCEPT !.srv.client_sock = 4, !.sock.backlog = @ - 1,
                        !.hist.torn = FALSE,
                        !.hist.stale = w.srv.minimal_rx_bytes,
                        !.hist.oscan1_seen = FALSE, !.hist.passed_over = FALSE,
                        !.hist.base = 0,
                        !.hist.cmd = NoCmd, !.hist.handed = <<>>]
    ELSE w

\* the 8 bytes of a legacy header, then process_command
poll_legacy(w) ==
    LET s == w.srv IN
    IF s.cmd_bytes_received < MIN_CMD_SIZE
    THEN LET r == recv(w, MIN_CMD_SIZE - s.cmd_bytes_received)
         IN  IF r.ret < 0
             THEN IF ~WouldBlock(r.errno) THEN close_connection(r.w) ELSE r.w
             ELSE IF r.ret = 0
             THEN close_connection(r.w)
             ELSE LET w1 == [r.w EXCEPT
                                !.srv.cmd_buf =
                                    Memcpy(@, s.cmd_bytes_received, r.data, 0, r.ret),
                                !.srv.cmd_bytes_received = @ + r.ret]
                  IN  IF w1.srv.cmd_bytes_received < MIN_CMD_SIZE
                      THEN w1
                      ELSE process_command([w1 EXCEPT !.srv.cmd_bytes_received = 0],
                                           w1.srv.cmd_buf)
    ELSE process_command([w EXCEPT !.srv.cmd_bytes_received = 0], s.cmd_buf)

\* just after detection, full dialect: 8 bytes, then the whole packet
poll_full(w) ==
    LET s == w.srv
        rest(v) ==
            IF v.srv.vpi_rx_bytes < VPI_PKT_SIZE
            THEN LET r == recv(v, VPI_PKT_SIZE - v.srv.vpi_rx_bytes)
                 IN  IF r.ret < 0
                     THEN IF ~WouldBlock(r.errno) THEN close_connection(r.w) ELSE r.w
                     ELSE IF r.ret = 0
                     THEN close_connection(r.w)
                     ELSE LET v1 == [r.w EXCEPT
                                        !.srv.vpi_cmd_rx =
                                            Memcpy(@, v.srv.vpi_rx_bytes, r.data, 0, r.ret),
                                        !.srv.vpi_rx_bytes = @ + r.ret]
                          IN  IF v1.srv.vpi_rx_bytes < VPI_PKT_SIZE
                              THEN v1
                              ELSE full_dispatch(v1)
            ELSE full_dispatch(v)
    IN  IF s.vpi_rx_bytes < 8
        THEN LET r == recv(w, 8 - s.vpi_rx_bytes)
             IN  IF r.ret < 0
                 THEN IF ~WouldBlock(r.errno) THEN close_connection(r.w) ELSE r.w
                 ELSE IF r.ret = 0
                 THEN close_connection(r.w)
                 ELSE LET w1 == [r.w EXCEPT
                                    !.srv.vpi_cmd_rx =
                                        Memcpy(@, s.vpi_rx_bytes, r.data, 0, r.ret),
                                    !.srv.vpi_rx_bytes = @ + r.ret]
                      IN  IF w1.srv.vpi_rx_bytes < 8 THEN w1 ELSE rest(w1)
        ELSE rest(w)

\* just after detection, minimal dialect
poll_minimal(w) ==
    LET s == w.srv IN
    IF s.minimal_rx_bytes < MIN_CMD_SIZE
    THEN LET r == recv(w, MIN_CMD_SIZE - s.minimal_rx_bytes)
         IN  IF r.ret < 0
             THEN IF ~WouldBlock(r.errno) THEN close_connection(r.w) ELSE r.w
             ELSE IF r.ret = 0
             THEN close_connection(r.w)
             ELSE LET w1 == [r.w EXCEPT
                                !.srv.minimal_cmd_rx =
                                    Memcpy(@, s.minimal_rx_bytes, r.data, 0, r.ret),
                                !.srv.minimal_rx_bytes = @ + r.ret]
                  IN  IF w1.srv.minimal_rx_bytes < MIN_CMD_SIZE
                      THEN w1
                      ELSE minimal_dispatch(w1)
    ELSE minimal_dispatch(w)

\* the dialect decided from 8 buffered bytes and a peek for more
DetectDialect(w) ==
    LET p == recv_peek(w)
        more_data_available == p.ret > 0
        s == w.srv
    IN  IF more_data_available
        THEN [w EXCEPT !.srv.protocol_mode = "PROTO_OPENOCD_VPI",
                       !.srv.vpi_cmd_rx = Memcpy(@, 0, s.minimal_cmd_rx, 0, MIN_CMD_SIZE),
                       !.srv.vpi_rx_bytes = MIN_CMD_SIZE,
                       !.srv.minimal_rx_bytes = 0,
                       !.srv.minimal_cmd_rx = ZeroBuf,
                       !.srv.vpi_minimal_mode = FALSE,
                       !.hist.detected = TRUE]
        ELSE [w EXCEPT !.srv.protocol_mode = "PROTO_OPENOCD_VPI",
                       !.srv.vpi_minimal_mode = TRUE,
                       !.hist.detected = TRUE]

\* after detection: continue with the detected protocol
poll_dispatch(w) ==
    IF w.srv.protocol_mode = "PROTO_OPENOCD_VPI"
    THEN IF w.srv.vpi_minimal_mode THEN poll_minimal(w) ELSE poll_full(w)
    ELSE poll_legacy(w)

\* protocol_mode == PROTO_UNKNOWN: read up to 8 bytes, detect, dispatch
poll_detect(w) ==
    LET s == w.srv
        decide(v) ==
            IF v.srv.minimal_rx_bytes >= MIN_CMD_SIZE
            THEN poll_dispatch(DetectDialect(v))
            ELSE v
    IN  IF s.minimal_rx_bytes < MIN_CMD_SIZE
        THEN LET r == recv(w, MIN_CMD_SIZE - s.minimal_rx_bytes)
             IN  IF r.ret < 0
                 THEN IF ~WouldBlock(r.errno) THEN close_connection(r.w) ELSE r.w
                 ELSE IF r.ret = 0
                 THEN close_connection(r.w)
                 ELSE decide([r.w EXCEPT
                                 !.srv.minimal_cmd_rx =
                                     Memcpy(@, s.minimal_rx_bytes, r.data, 0, r.ret),
                                 !.srv.minimal_rx_bytes = @ + r.ret])
        ELSE decide(w)

PollIgnoringScan(w) ==
    IF w.srv.client_sock < 0 THEN poll_accept(w)
    ELSE IF w.srv.protocol_mode = "PROTO_OPENOCD_VPI" THEN continue_vpi_work(w)
    ELSE IF w.srv.protocol_mode = "PROTO_UNKNOWN" THEN poll_detect(w)
    ELSE poll_legacy(w)

\* a variant that looks at the listening socket first, connected or not
PollAcceptsOverActive(w) ==
    IF w.srv.client_sock < 0 \/ w.sock.backlog > 0 THEN poll_accept(w)
    ELSE IF w.srv.protocol_mode = "PROTO_OPENOCD_VPI" THEN continue_vpi_work(w)
    ELSE IF w.srv.scan_state # "SCAN_IDLE" THEN continue_scan(w)
    ELSE IF w.srv.protocol_mode = "PROTO_UNKNOWN" THEN poll_detect(w)
    ELSE poll_legacy(w)

poll(w) ==
    IF w.srv.client_sock < 0 THEN poll_accept(w)
    ELSE IF w.srv.protocol_mode = "PROTO_OPENOCD_VPI" THEN continue_vpi_work(w)
    ELSE IF w.srv.scan_state # "SCAN_IDLE" THEN continue_scan(w)
    ELSE IF w.srv.protocol_mode = "PROTO_UNKNOWN" THEN poll_detect(w)
    ELSE poll_legacy(w)

(***************************************************************************)
(* The client: what it writes                                              *)
(***************************************************************************)
\* 8-byte header of the minimal and legacy dialects: cmd, 3 pad bytes, length (htonl)
Header8(cmd, len) ==
    StreamOf(<<cmd, 0, 0, 0, (len \div 16777216) % 256, (len \div 65536) % 256,
               (len \div 256) % 256, len % 256>>)

\* 1036-byte packet of the full dialect: cmd, buffer_out, buffer_in, length, nb_bits
Packet(cmd, out, nb_bits) ==
    [len |-> VPI_PKT_SIZE,
     data |-> host_to_le32(
                  host_to_le32(
                      Memcpy(host_to_le32(ZeroBuf, 0, cmd), OFF_BUFFER_OUT,
                             BufOf(out), 0, Len(out)),
                      OFF_LENGTH, (nb_bits + 7) \div 8),
                  OFF_NB_BITS, nb_bits)]

ScanLens == {0, 9, 4097}

FlipLens == {1, 9}

\* TDI bytes of a 9-bit scan, and TMS bytes followed by TDI bytes
TdiBytes == <<165, 1>>
TmsTdiBytes == <<2, 129, 165, 1>>

\* the first bytes of a header whose writer died before finishing it
CutHeader == <<0, 0, 0>>

FullMenu ==
    {Packet(0, <<>>, 0), Packet(1, <<1>>, 2), Packet(1, <<1>>, 4097),
     Packet(4, <<>>, 0), Packet(16, <<>>, 0), Packet(5, <<2>>, 2)}
    \cup {Packet(2, TdiBytes, n) : n \in ScanLens}
    \cup {Packet(3, TdiBytes, n) : n \in FlipLens}

ShortMenu ==
    {Header8(0, 0), Header8(1, 2), Header8(3, 0), Header8(4, 0), Header8(5, 0),
     Header8(16, 0), StreamOf(TmsTdiBytes), StreamOf(CutHeader)}
    \cup {Header8(2, n) : n \in ScanLens}

Menu(kind) == IF kind = "full" THEN FullMenu ELSE ShortMenu

CutSizes == {3, 8, 520}

StallRooms == {0, 1}

\* the TDO answers of the hardware, pulse after pulse (repeating)
HwPatterns == {<<1, 0, 1, 1, 0, 0, 1, 0, 1>>, <<0, 1, 0, 0, 1, 1, 0, 1, 0>>}

HwAt(p, k) == p[(k % Len(p)) + 1]

\* the TDO values recorded for the pulses and toggles handed out so far
Pulses(handed) ==
    SelectSeq(handed, LAMBDA h : h.tck_pulse \/ h.tckc_toggle)

\* the answers the hardware can give to the next pulse
HwAnswers(handed) ==
    LET ps == Pulses(handed)
    IN  {HwAt(p, Len(ps)) : p \in {q \in HwPatterns :
                                     \A j \in 1..Len(ps) : ps[j].tdo = HwAt(q, j - 1)}}

(***************************************************************************)
(* Actions                                                                 *)
(***************************************************************************)
World == [srv |-> srv, sock |-> sock, hist |-> hist]

Becomes(w) == srv' = w.srv /\ sock' = w.sock /\ hist' = w.hist /\ UNCHANGED side

\* the activation of send_minimal_response: where it stands, its two locals and
\* the number of send() calls made so far; NoCall when it is not being traced
NoCall == [pc |-> "none", sent_total |-> 0, retry_count |-> 0, attempts |-> 0]

\* the value of twin where no reference run is made
NoTwin == [diverged |-> FALSE]

Init ==
    /\ \E proto \in ProtocolMode, msb \in BOOLEAN, mode \in {0, 1} :
           \* the cJTAG preset is explored with the legacy preset only, LSB
           \* first and on a connection without faults; the OpenOCD preset is
           \* explored LSB first
           /\ (mode = 1 => proto = "PROTO_LEGACY_8BYTE" /\ ~msb)
           /\ (proto = "PROTO_OPENOCD_VPI" => ~msb)
           /\ srv = JtagVpiServer(proto, msb, mode)
           /\ hist = [NoHist EXCEPT !.faults_left = IF mode = 1 THEN 0 ELSE @]
    /\ sock = NoSocket
    /\ smr = NoCall
    /\ twin = NoTwin
    /\ fn = [op |-> "none"]
    /\ sim = [sim_state |-> "none"]

\* a client connects (the handshake completes in the listen backlog)
ClientConnect ==
    /\ ~srv.ub
    /\ sock.peer = "none" /\ sock.backlog = 0 /\ srv.client_sock < 0
    /\ hist.conns_left > 0
    /\ \E kind \in {"full", "short"} :
           \* a server preset to the legacy dialect is used with 8-byte clients
           /\ (srv.protocol_mode = "PROTO_LEGACY_8BYTE" => kind = "short")
           /\ sock' = [sock EXCEPT !.backlog = 1, !.peer = "open", !.kind = kind,
                                !.tx_space = VPI_PKT_SIZE,
                                !.client_rx = EmptyStream]
    /\ hist' = [hist EXCEPT !.conns_left = @ - 1, !.delivered = FALSE,
                            !.reply_at = -1]
    /\ UNCHANGED <<srv, side>>

\* a second client connects while the first is being served: its handshake
\* completes and it waits in the listen backlog
ClientArrives ==
    /\ ~srv.ub
    /\ srv.client_sock >= 0 /\ sock.backlog = 0
    /\ hist.conns_left > 0 /\ hist.faults_left > 0
    /\ sock' = [sock EXCEPT !.backlog = 1]
    /\ hist' = [hist EXCEPT !.conns_left = @ - 1, !.faults_left = @ - 1]
    /\ UNCHANGED <<srv, side>>

\* the client writes one frame or payload
ClientWrite ==
    /\ ~srv.ub
    /\ sock.peer = "open" /\ sock.net.len = 0 /\ sock.rx.len = 0
    /\ hist.cmds_left > 0
    /\ \E f \in Menu(sock.kind) : sock' = [sock EXCEPT !.net = f]
    /\ hist' = [hist EXCEPT !.cmds_left = @ - 1]
    /\ UNCHANGED <<srv, side>>

\* the network delivers everything in flight
Deliver ==
    /\ sock.net.len > 0
    /\ sock' = [sock EXCEPT !.rx = StreamConcat(@, sock.net), !.net = EmptyStream]
    /\ UNCHANGED <<srv, hist, side>>

\* the network delivers only the first k bytes in flight
DeliverPart ==
    /\ hist.faults_left > 0
    /\ \E k \in CutSizes :
           /\ k < sock.net.len
           /\ sock' = [sock EXCEPT !.rx = StreamAppend(@, sock.net.data, 0, k),
                                   !.net = StreamDrop(@, k)]
    /\ hist' = [hist EXCEPT !.faults_left = @ - 1]
    /\ UNCHANGED <<srv, side>>

\* the client stops reading: the send buffer has room for only a few bytes
ClientStall ==
    /\ sock.peer = "open" /\ srv.client_sock >= 0 /\ hist.faults_left > 0
    /\ sock.tx_space = VPI_PKT_SIZE
    /\ \E k \in StallRooms : sock' = [sock EXCEPT !.tx_space = k]
    /\ hist' = [hist EXCEPT !.faults_left = @ - 1]
    /\ UNCHANGED <<srv, side>>

\* the client reads again
ClientDrain ==
    /\ sock.peer = "open" /\ sock.tx_space < VPI_PKT_SIZE
    /\ sock' = [sock EXCEPT !.tx_space = VPI_PKT_SIZE]
    /\ UNCHANGED <<srv, hist, side>>

\* the client closes its end once everything it wrote has arrived
ClientClose ==
    /\ sock.peer = "open" /\ sock.net.len = 0
    /\ sock' = [sock EXCEPT !.peer = "fin"]
    /\ UNCHANGED <<srv, hist, side>>

\* the connection is reset by the peer: what has arrived stays readable, what is
\* in flight is lost, sending fails from now on
ClientReset ==
    /\ sock.peer \in {"open", "fin"} /\ hist.faults_left > 0
    /\ sock' = [sock EXCEPT !.peer = "rst", !.net = EmptyStream]
    /\ hist' = [hist EXCEPT !.faults_left = @ - 1]
    /\ UNCHANGED <<srv, side>>

\* the driver calls poll()
Poll ==
    /\ ~srv.ub
    /\ hist.cmds_done < MaxDecoded
    /\ \E w \in {poll([World EXCEPT !.hist.passed_over =
                                     @ \/ (srv.client_sock >= 0 /\ sock.backlog > 0)])} :
           Becomes(w)

\* the driver calls get_pending_signals(), applies the request to the hardware and
\* reports what it observes with update_signals()
DriverStep ==
    /\ ~srv.ub
    /\ LET r == get_pending_signals(World)
       IN  /\ r.ok
           /\ \E tdo \in {0, 1} :
                  /\ IF r.tck_pulse \/ r.tckc_toggle
                     THEN tdo \in HwAnswers(hist.handed)
                     ELSE tdo = srv.current_tdo
                  /\ Becomes([update_signals(r.w, tdo, r.mode_sel) EXCEPT
                                 !.hist.handed =
                                     Append(@, [tms |-> r.tms, tdi |-> r.tdi,
                                                mode_sel |-> r.mode_sel,
                                                tck_pulse |-> r.tck_pulse,
                                                tckc_toggle |-> r.tckc_toggle,
                                                owner |-> r.owner, bit |-> r.bit,
                                                seq |-> r.seq,
                                                tdo |-> tdo])])

Driver ==
    /\ Len(hist.handed) < MaxPulses
    /\ DriverStep

Next ==
    \/ ClientConnect
    \/ ClientArrives
    \/ ClientWrite
    \/ Deliver
    \/ DeliverPart
    \/ ClientStall
    \/ ClientDrain
    \/ ClientClose
    \/ ClientReset
    \/ Poll
    \/ Driver

Spec == Init /\ [][Next]_vars

(***************************************************************************)
(* Properties                                                              *)
(***************************************************************************)
\* bit i of a scan buffer that starts at offset off of buf
WireBit(buf, off, i, msb) ==
    BitOfByte(Get(buf, off + (i \div 8)), IF msb THEN 7 - (i % 8) ELSE i % 8)

\* the last decoded command is a scan (cmd 3 is a scan in the full dialect only)
ScanCmd ==
    hist.cmd.op = 2 \/ (hist.cmd.op = 3 /\ hist.cmd.dialect = "full")

ValidLen == hist.cmd.nb_bits \in 1..MAX_SCAN_BITS

\* the pulses of the current scan handed to the driver, with the TDO it reported
ScanPulses == HandedOf(hist.handed, "scan", hist.cmds_done)

\* C1: in a scan of n bits (1..4096) every bit is posted once, in order, and the
\* TDO bit i stored and delivered to the client is the TDO the driver reported for
\* the pulse of bit i, however many polls ran while a pulse was pending.
C1_ScanTdoIsObserved ==
    (ScanCmd /\ ValidLen) =>
        /\ \A k \in 1..Len(ScanPulses) :
               /\ ScanPulses[k].bit = k - 1
               /\ ScanPulses[k].tck_pulse
               /\ (k + 1 <= srv.scan_bit_index =>
                       WireBit(srv.scan_tdo_buf, 0, k - 1, srv.msb_first)
                           = ScanPulses[k].tdo)
        /\ hist.delivered =>
               /\ Len(ScanPulses) = hist.cmd.nb_bits
               /\ \A k \in 1..Len(ScanPulses) :
                      WireBit(sock.client_rx.data, hist.reply_at, k - 1, srv.msb_first)
                          = ScanPulses[k].tdo

\* a 9-bit scan was delivered after polls ran while pulses were pending, with both
\* TDO values observed
C1_Witness ==
    /\ hist.cmd.op = 2 /\ hist.cmd.nb_bits = 9
    /\ hist.delivered /\ hist.waited
    /\ Len(ScanPulses) = 9
    /\ \E j, k \in 1..9 : ScanPulses[j].tdo = 0 /\ ScanPulses[k].tdo = 1

\* the pulses handed out for the last RESET
ResetPulses == HandedOf(hist.handed, "reset", hist.cmds_done)

\* C2: a RESET yields exactly six requests (tms = 1, tck_pulse), in every dialect,
\* and no further command is accepted before the six have been handed out.
C2_ResetSixPulses ==
    /\ ~hist.early
    /\ hist.cmd.op = 0 =>
           /\ Len(ResetPulses) <= RESET_PULSES
           /\ \A k \in 1..Len(ResetPulses) :
                  ResetPulses[k].tms = 1 /\ ResetPulses[k].tck_pulse
           /\ (~Unconsumed(srv) /\ ~hist.torn) => Len(ResetPulses) = RESET_PULSES

\* the toggles handed out for the last OSCAN1 command
Sf0Toggles == HandedOf(hist.handed, "sf0", hist.cmds_done)

\* C3: an OSCAN1 edge yields exactly two tckc_toggle requests, the first with the
\* requested tms, the second, posted only once the first is consumed, with the
\* requested tdi; the TDO then captured is the one the driver reported, the
\* response carries it in buffer_in[0], and the engine is idle again.
C3_Oscan1TwoPhases ==
    (hist.cmd.op = 5 /\ hist.cmd.dialect = "full") =>
        /\ Len(Sf0Toggles) <= 2
        /\ \A k \in 1..Len(Sf0Toggles) : Sf0Toggles[k].tckc_toggle
        /\ Len(Sf0Toggles) >= 1 => Sf0Toggles[1].tms = hist.cmd.tms
        /\ Len(Sf0Toggles) = 2 => Sf0Toggles[2].tdi = hist.cmd.tdi
        /\ srv.sf0_state = "SF0_SEND_TMS" => Len(Sf0Toggles) <= 1
        /\ srv.sf0_state = "SF0_SEND_TDI" =>
               Len(Sf0Toggles) = IF srv.pending_tckc_toggle THEN 1 ELSE 2
        /\ srv.sf0_state = "SF0_IDLE" =>
               /\ Len(Sf0Toggles) = 2
               /\ srv.sf0_tdo = Sf0Toggles[2].tdo
               /\ Get(srv.vpi_cmd_tx, OFF_BUFFER_IN) = Sf0Toggles[2].tdo
               /\ hist.delivered =>
                      Get(sock.client_rx.data, hist.reply_at) = Sf0Toggles[2].tdo

\* an OSCAN1 edge whose response, carrying an observed TDO of 1, reached the client
C3_Witness ==
    /\ hist.cmd.op = 5 /\ hist.cmd.dialect = "full"
    /\ hist.cmd.tms = 1 /\ hist.cmd.tdi = 0
    /\ srv.sf0_state = "SF0_IDLE" /\ hist.delivered /\ hist.waited
    /\ Len(Sf0Toggles) = 2 /\ Sf0Toggles[2].tdo = 1

\* C4: once the dialect of a connection is detected, protocol_mode and
\* vpi_minimal_mode do not change until the connection is torn down.
C4_DialectSticky ==
    [][(hist.detected /\ hist'.detected) =>
           /\ srv'.protocol_mode = srv.protocol_mode
           /\ srv'.vpi_minimal_mode = srv.vpi_minimal_mode]_vars

\* C5: after a teardown the dialect is unknown again and the scan engine and the
\* OScan1 engine are idle.
C5_TeardownResetsEngines ==
    hist.torn =>
        /\ srv.protocol_mode = "PROTO_UNKNOWN" /\ ~srv.vpi_minimal_mode
        /\ srv.scan_state = "SCAN_IDLE"
        /\ srv.sf0_state = "SF0_IDLE"

\* C6: after a teardown the mailbox is empty: no pending TCK pulse, no pending
\* TCKC toggle, no queued reset pulses.
C6_TeardownEmptiesMailbox ==
    hist.torn =>
        /\ ~srv.pending_tck_pulse
        /\ ~srv.pending_tckc_toggle
        /\ srv.reset_pulses_remaining = 0

\* C7: no engine posts a request, or overwrites the pending tms / tdi, while an
\* earlier request has not been consumed by the driver.
C7_OneUnconsumedRequest == ~hist.clobbered

\* C8: the pulses of a SCAN_FLIP_LAST_TMS of n bits carry tms = 0 for the bits
\* 0..n-2 and tms = 1 for the bit n-1, whatever msb_first is.
C8_FlipLastTms ==
    (hist.cmd.op = 3 /\ hist.cmd.dialect = "full" /\ ValidLen) =>
        \A k \in 1..Len(ScanPulses) :
            ScanPulses[k].tms =
                IF ScanPulses[k].bit = hist.cmd.nb_bits - 1 THEN 1 ELSE 0

C10_InvalidScanRejected ==
    (ScanCmd /\ ~ValidLen) =>
        /\ srv.scan_state = "SCAN_IDLE"
        /\ ~srv.ub

\* the last command was decoded by this step
DecodedNow == hist'.cmds_done = hist.cmds_done + 1

\* the decoded command is out of range: opcode above 0x0F or length above 4096
OutOfRange(c) == c.op > 15 \/ c.nb_bits > MAX_SCAN_BITS

\* the socket can take a response and no earlier response is still to be flushed
CanRespond ==
    sock.peer = "open" /\ sock.tx_space >= MIN_RESP_SIZE /\ ~srv.vpi_tx_pending

\* C11: in the dialects with a response status (legacy, minimal) a command with
\* an opcode above 0x0F or a length above the maximum is answered, on a socket
\* that can take the response, with a transmitted response byte that is not 0.
C11_ErrorStatusSent ==
    [][(/\ DecodedNow
        /\ hist'.cmd.dialect \in {"legacy", "minimal"}
        /\ OutOfRange(hist'.cmd)
        /\ CanRespond)
       => /\ sock'.client_rx.len = sock.client_rx.len + MIN_RESP_SIZE
          /\ Get(sock'.client_rx.data, sock.client_rx.len) # 0]_vars

\* the scan engine, the TMS-sequence engine and the OScan1 engine of a server
Engines(s) ==
    <<s.scan_state, s.scan_num_bits, s.scan_num_bytes, s.scan_bit_index,
      s.scan_bytes_received, s.scan_bytes_sent,
      s.tms_seq_active, s.tms_seq_num_bits, s.tms_seq_bit_index,
      s.sf0_state, s.sf0_tms, s.sf0_tdi, s.sf0_tdo>>

\* the pending-signal mailbox of a server
Mailbox(s) ==
    <<s.pending_tms, s.pending_tdi, s.pending_mode_select, s.pending_tck_pulse,
      s.pending_tckc_toggle, s.reset_pulses_remaining>>

\* C12: a frame with an opcode above 0x0F or a length above 4096 leaves the scan,
\* TMS-sequence and OScan1 state and the mailbox as they were, is discarded, and
\* the connection stays open.
C12_RejectedFrameNoEffect ==
    [][(DecodedNow /\ OutOfRange(hist'.cmd)
        /\ sock.peer = "open" /\ sock.tx_space >= MIN_RESP_SIZE)
       => /\ Engines(srv') = Engines(srv)
          /\ Mailbox(srv') = Mailbox(srv)
          /\ ~srv'.ub
          /\ srv'.client_sock = srv.client_sock
          /\ srv'.vpi_rx_bytes = 0 /\ srv'.minimal_rx_bytes = 0
          /\ srv'.cmd_bytes_received = 0]_vars

\* the bytes of the present connection that have arrived at the server and were
\* not yet consumed as part of a decoded command
Arrived == (srv.minimal_rx_bytes - hist.stale) + sock.rx.len

\* C13: on a fresh connection the dialect is chosen only once 8 bytes have
\* arrived: full when more data is queued behind them, minimal when nothing is.
C13_DetectionByPeek ==
    [][(srv.protocol_mode = "PROTO_UNKNOWN" /\ srv'.protocol_mode # "PROTO_UNKNOWN")
       => /\ Arrived >= MIN_CMD_SIZE
          /\ srv'.protocol_mode = "PROTO_OPENOCD_VPI"
          /\ srv'.vpi_minimal_mode = ~(Arrived > MIN_CMD_SIZE)]_vars

\* the first byte of the header being received
FirstByte ==
    IF srv.minimal_rx_bytes > 0 THEN Get(srv.minimal_cmd_rx, 0)
    ELSE Get(sock.rx.data, 0)

\* C14: on a fresh connection exactly 8 bytes with nothing queued behind them
\* and a first byte above 0x06 resolve the dialect to the legacy 8-byte one.
C14_LegacyByFirstByte ==
    [][(/\ srv.client_sock >= 0 /\ srv.protocol_mode = "PROTO_UNKNOWN"
        /\ Arrived = MIN_CMD_SIZE /\ FirstByte > 6
        /\ ~hist.detected /\ hist'.detected)
       => srv'.protocol_mode = "PROTO_LEGACY_8BYTE"]_vars

C17_SetPortReportsMode ==
    [][(/\ DecodedNow
        /\ hist'.cmd.op = 3 /\ hist'.cmd.dialect \in {"legacy", "minimal"}
        /\ ~OutOfRange(hist'.cmd)
        /\ CanRespond)
       => /\ sock'.client_rx.len = sock.client_rx.len + MIN_RESP_SIZE
          /\ Get(sock'.client_rx.data, sock.client_rx.len) = 0
          /\ Get(sock'.client_rx.data, sock.client_rx.len + 2) = srv.current_mode
          /\ Mailbox(srv') = Mailbox(srv)
          /\ Engines(srv') = Engines(srv)]_vars

\* a STOP was decoded by this step (opcode 4 of process_vpi_packet)
StopNow ==
    DecodedNow /\ hist'.cmd.op = 4 /\ hist'.cmd.dialect \in {"full", "minimal"}

\* the connection is closed and the server is back in the undetected state
BackToUndetected(s) ==
    /\ s.client_sock < 0
    /\ s.protocol_mode = "PROTO_UNKNOWN" /\ ~s.vpi_minimal_mode
    /\ s.vpi_rx_bytes = 0 /\ s.minimal_rx_bytes = 0 /\ ~s.vpi_tx_pending

\* no operation is in flight: the engines are idle and no request is queued
NothingInFlight(s) ==
    /\ s.scan_state = "SCAN_IDLE" /\ ~s.tms_seq_active /\ s.sf0_state = "SF0_IDLE"
    /\ ~Unconsumed(s)

\* C18: a STOP closes the connection within the same poll(), sends no response
\* for it, discards all in-flight operation state and leaves the server in the
\* dialect-undetected state.
C18_StopClosesAndDiscards ==
    [][StopNow =>
           /\ BackToUndetected(srv')
           /\ NothingInFlight(srv')
           /\ (~srv.vpi_tx_pending => sock'.client_rx = sock.client_rx)]_vars

\* the pulses handed out for the last TMS_SEQ command
TmsSeqPulses == HandedOf(hist.handed, "tms_seq", hist.cmds_done)

\* C19: a TMS_SEQ of n bits yields n TCK pulses, in order, with tdi = 0 and tms
\* equal to bit i of the payload, addressed as the scan engine addresses its bits.
C19_TmsSeqBits ==
    (hist.cmd.op = 1 /\ hist.cmd.dialect = "full" /\ ValidLen) =>
        /\ Len(TmsSeqPulses) <= hist.cmd.nb_bits
        /\ \A k \in 1..Len(TmsSeqPulses) :
               /\ TmsSeqPulses[k].bit = k - 1
               /\ TmsSeqPulses[k].tck_pulse
               /\ TmsSeqPulses[k].tdi = 0
               /\ TmsSeqPulses[k].tms =
                      WireBit(hist.cmd.out, 0, k - 1, srv.msb_first)
        /\ (~srv.tms_seq_active /\ ~hist.torn) =>
               Len(TmsSeqPulses) = hist.cmd.nb_bits

\* this step is not the driver taking a request
NotDriver == Len(hist'.handed) # Len(hist.handed) + 1

\* every read and every write on the connection would report EAGAIN
AllWouldBlock ==
    sock.peer = "open" /\ sock.rx.len = 0 /\ sock.tx_space = 0

\* the next poll() makes a system call: no engine is at a step that only posts
WaitsOnSocket(s) ==
    /\ s.client_sock >= 0
    /\ s.sf0_state = "SF0_IDLE" /\ ~s.tms_seq_active
    /\ s.scan_state # "SCAN_PROCESSING"

\* dialect, frame counters, engines, mailbox and connection of t are those of s
Kept(s, t) ==
    /\ t.protocol_mode = s.protocol_mode /\ t.vpi_minimal_mode = s.vpi_minimal_mode
    /\ t.cmd_bytes_received = s.cmd_bytes_received
    /\ t.minimal_rx_bytes = s.minimal_rx_bytes
    /\ t.vpi_rx_bytes = s.vpi_rx_bytes /\ t.vpi_tx_bytes = s.vpi_tx_bytes
    /\ Engines(t) = Engines(s)
    /\ Mailbox(t) = Mailbox(s)
    /\ t.client_sock = s.client_sock

\* C20: a poll() whose reads and writes report EAGAIN leaves the dialect, the
\* frame counters, the engines and the mailbox unchanged, and a write that
\* reports EAGAIN never costs the connection: with the peer open the connection
\* is closed by a STOP only.
C20_WouldBlockKeepsState ==
    [][(srv.client_sock >= 0 /\ sock.peer = "open" /\ NotDriver)
       => /\ (~StopNow => srv'.client_sock = srv.client_sock)
          /\ ((AllWouldBlock /\ WaitsOnSocket(srv)) => Kept(srv, srv'))]_vars

\* the next system call of poll() on the connection reports a fatal error or a
\* clean end of stream: nothing is left to read and the peer has reset the
\* connection, or has closed it and the next call is a read
FatalNext ==
    /\ WaitsOnSocket(srv) /\ sock.rx.len = 0
    /\ \/ sock.peer = "rst"
       \/ /\ sock.peer = "fin"
          /\ ~srv.vpi_tx_pending /\ srv.scan_state # "SCAN_SENDING_TDO"

\* the per-connection state of a server is as it was before the connection
PerConnectionInitial(s) ==
    /\ s.client_sock < 0
    /\ ~s.vpi_minimal_mode /\ ~s.vpi_tx_pending
    /\ s.cmd_bytes_received = 0 /\ s.minimal_rx_bytes = 0 /\ s.vpi_rx_bytes = 0
    /\ s.scan_state = "SCAN_IDLE" /\ ~s.tms_seq_active /\ s.sf0_state = "SF0_IDLE"

\* C21: when the next socket operation of poll() reports EPIPE or ECONNRESET or
\* a read returns 0, in any connection state, that poll() tears the connection
\* down and returns the per-connection state to its initial value.
C21_FatalTearsDown ==
    FatalNext => PerConnectionInitial(poll(World).srv)

\* this step decoded a minimal-dialect command other than STOP, which is
\* answered through send_minimal_response
MinimalAnswered ==
    DecodedNow /\ hist'.cmd.dialect = "minimal" /\ hist'.cmd.op \in {0, 1, 2, 3}

SmrInit ==
    /\ srv = [JtagVpiServer("PROTO_OPENOCD_VPI", FALSE, 0) EXCEPT !.client_sock = 4]
    /\ sock = [NoSocket EXCEPT !.peer = "open", !.kind = "short"]
    /\ hist = NoHist
    /\ smr = [NoCall EXCEPT !.pc = "loop"]
    /\ twin = NoTwin
    /\ fn = [op |-> "none"]
    /\ sim = [sim_state |-> "none"]

\* while (sent_total < sizeof(resp) && retry_count < MAX_RETRIES)
SmrLoops ==
    /\ smr.pc = "loop"
    /\ smr.sent_total < MIN_RESP_SIZE /\ smr.retry_count < MAX_RETRIES
    /\ smr.attempts < MaxAttempts

\* send() accepts k bytes
SmrAccepted ==
    /\ SmrLoops
    /\ \E k \in 1..(MIN_RESP_SIZE - smr.sent_total) :
           smr' = [smr EXCEPT !.sent_total = @ + k, !.attempts = @ + 1]
    /\ UNCHANGED <<srv, sock, hist, twin, fn, sim>>

\* send() accepts no byte and reports no error: neither branch is taken
SmrZero ==
    /\ SmrLoops
    /\ smr' = [smr EXCEPT !.attempts = @ + 1]
    /\ UNCHANGED <<srv, sock, hist, twin, fn, sim>>

\* send() reports EAGAIN or EWOULDBLOCK
SmrWouldBlock ==
    /\ SmrLoops
    /\ smr' = [smr EXCEPT !.retry_count = @ + 1, !.attempts = @ + 1,
                          !.pc = IF smr.retry_count + 1 >= MAX_RETRIES
                                 THEN "returned" ELSE @]
    /\ UNCHANGED <<srv, sock, hist, twin, fn, sim>>

\* send() reports EINTR
SmrInterrupted ==
    /\ SmrLoops
    /\ smr' = [smr EXCEPT !.retry_count = @ + 1, !.attempts = @ + 1]
    /\ UNCHANGED <<srv, sock, hist, twin, fn, sim>>

\* send() reports any other error: close_connection() and return
SmrFatal ==
    /\ SmrLoops
    /\ smr' = [smr EXCEPT !.attempts = @ + 1, !.pc = "closed"]
    /\ UNCHANGED <<srv, sock, hist, twin, fn, sim>>

\* the loop condition fails: the function returns
SmrExit ==
    /\ smr.pc = "loop"
    /\ ~(smr.sent_total < MIN_RESP_SIZE /\ smr.retry_count < MAX_RETRIES)
    /\ smr' = [smr EXCEPT !.pc = "returned"]
    /\ UNCHANGED <<srv, sock, hist, twin, fn, sim>>

SmrNext ==
    \/ SmrAccepted
    \/ SmrZero
    \/ SmrWouldBlock
    \/ SmrInterrupted
    \/ SmrFatal
    \/ SmrExit

SmrSpec == SmrInit /\ [][SmrNext]_vars

\* C23: send_minimal_response makes a bounded number of send() calls whatever
\* the outcomes are: at most one per byte of the response and one per retry.
C23_SendAttemptsBounded ==
    smr.attempts <= MAX_RETRIES + MIN_RESP_SIZE

\* C24: at most one client connection is active: while a client is connected no
\* step takes a connection out of the listen backlog, and the connection the
\* server serves is not exchanged for another one.
C24_OneClientAtATime ==
    [][srv.client_sock >= 0 =>
           /\ sock'.backlog >= sock.backlog
           /\ srv'.client_sock \in {srv.client_sock, -1}
           /\ sock'.kind \in {sock.kind, "none"}]_vars

\* poll() ran with a client connected and a second one waiting, which still waits
C24_Witness ==
    srv.client_sock >= 0 /\ sock.backlog = 1 /\ hist.passed_over

\* the three engines of a server, one tuple each
ScanEngine(s) ==
    <<s.scan_state, s.scan_num_bits, s.scan_num_bytes, s.scan_bit_index,
      s.scan_bytes_sent>>

TmsSeqEngine(s) == <<s.tms_seq_active, s.tms_seq_num_bits, s.tms_seq_bit_index>>

Sf0Engine(s) == <<s.sf0_state, s.sf0_tms, s.sf0_tdi, s.sf0_tdo>>

\* how many engines differ between server s and server t
EnginesMoved(s, t) ==
    (IF ScanEngine(s) # ScanEngine(t) THEN 1 ELSE 0)
    + (IF TmsSeqEngine(s) # TmsSeqEngine(t) THEN 1 ELSE 0)
    + (IF Sf0Engine(s) # Sf0Engine(t) THEN 1 ELSE 0)

\* how many signal requests t holds that s did not: a TCK pulse, a TCKC toggle,
\* a run of reset pulses
NewRequests(s, t) ==
    (IF ~s.pending_tck_pulse /\ t.pending_tck_pulse THEN 1 ELSE 0)
    + (IF ~s.pending_tckc_toggle /\ t.pending_tckc_toggle THEN 1 ELSE 0)
    + (IF t.reset_pulses_remaining > s.reset_pulses_remaining THEN 1 ELSE 0)

\* from s to t a bit counter stays, advances by one, or restarts for a new command
OneBit(s, t) ==
    /\ t.scan_bit_index \in {s.scan_bit_index, s.scan_bit_index + 1, 0}
    /\ t.tms_seq_bit_index \in {s.tms_seq_bit_index, s.tms_seq_bit_index + 1, 0}

\* C25: one poll() on a connection it keeps advances at most one engine, by at
\* most one bit or edge or by the decoding of one frame, and posts at most one
\* new signal request.
C25_OneMicroStep ==
    [][(NotDriver /\ srv.client_sock >= 0 /\ srv'.client_sock >= 0)
       => /\ EnginesMoved(srv, srv') <= 1
          /\ OneBit(srv, srv')
          /\ hist'.cmds_done <= hist.cmds_done + 1
          /\ NewRequests(srv, srv') <= 1]_vars

\* the bytes the client has received since the last command was decoded
SentSince == sock.client_rx.len - hist.base

\* the last command decoded on this connection is a minimal SCAN of a valid length
MinimalScan ==
    /\ srv.client_sock >= 0
    /\ hist.cmd.dialect = "minimal" /\ hist.cmd.op = 2
    /\ hist.cmd.nb_bits \in 1..MAX_SCAN_BITS

\* C26: for a minimal SCAN of n bits the server transmits the 4-byte response,
\* then ceil(n/8) TDO bytes, and nothing else.
C26_MinimalScanBytes ==
    MinimalScan =>
        /\ SentSince <= MIN_RESP_SIZE + (hist.cmd.nb_bits + 7) \div 8
        /\ ~srv.vpi_tx_pending

\* C27: on a minimal connection with room in the send buffer, the poll() that
\* decodes a RESET, TMS_SEQ, SCAN or SET_PORT sends one 4-byte response whose
\* response byte is 0x00.
C27_MinimalAlwaysAnswered ==
    [][(MinimalAnswered /\ CanRespond)
       => /\ sock'.client_rx.len = sock.client_rx.len + MIN_RESP_SIZE
          /\ Get(sock'.client_rx.data, sock.client_rx.len) = 0]_vars

\* the last command decoded on this connection is a full-dialect command that is
\* answered (a scan within the size of the scan buffers)
FullAnswered ==
    /\ srv.client_sock >= 0 /\ ~srv.ub
    /\ hist.cmd.dialect = "full" /\ hist.cmd.op \in {0, 1, 2, 3, 5}
    /\ (hist.cmd.op \in {2, 3} => hist.cmd.nb_bits <= MAX_SCAN_BITS)

\* nothing is left to do for the last command: no engine runs, nothing is queued
AllDone ==
    /\ srv.scan_state = "SCAN_IDLE" /\ ~srv.tms_seq_active
    /\ srv.sf0_state = "SF0_IDLE" /\ ~srv.vpi_tx_pending

\* C28: a full-dialect RESET, TMS_SEQ, SCAN, SCAN_FLIP_LAST_TMS or OSCAN1 is
\* answered with one 1036-byte response that starts where the previous response
\* ended and echoes the command code; the response of a scan carries
\* length = ceil(nb_bits/8), nb_bits, and in buffer_in the TDO the driver
\* reported for each pulse.
C28_FullOneResponse ==
    FullAnswered =>
        /\ SentSince <= VPI_PKT_SIZE
        /\ (SentSince >= 4 => le32_to_host(sock.client_rx.data, hist.base) = hist.cmd.op)
        /\ (AllDone => SentSince = VPI_PKT_SIZE)
        /\ (SentSince = VPI_PKT_SIZE /\ hist.cmd.op \in {2, 3}) =>
               /\ le32_to_host(sock.client_rx.data, hist.base + OFF_LENGTH)
                      = (hist.cmd.nb_bits + 7) \div 8
               /\ le32_to_host(sock.client_rx.data, hist.base + OFF_NB_BITS)
                      = hist.cmd.nb_bits
               /\ Len(ScanPulses) = hist.cmd.nb_bits
               /\ \A k \in 1..Len(ScanPulses) :
                      WireBit(sock.client_rx.data, hist.base + OFF_BUFFER_IN, k - 1,
                              srv.msb_first) = ScanPulses[k].tdo

\* the second command of a full connection, a 9-bit scan, has been answered whole
C28_Witness ==
    /\ FullAnswered /\ hist.cmd.op \in {2, 3} /\ hist.cmd.nb_bits = 9
    /\ hist.base = VPI_PKT_SIZE /\ SentSince = VPI_PKT_SIZE

\* a response is queued and this step leaves some of its bytes unsent
StillUnsent ==
    /\ srv.client_sock >= 0 /\ srv.vpi_tx_pending
    /\ sock'.client_rx.len - sock.client_rx.len < VPI_PKT_SIZE - srv.vpi_tx_bytes

\* C29: while a queued response has unsent bytes no frame is read or decoded and
\* the transmit buffer is not modified.
C29_OneResponseInFlight ==
    [][(StillUnsent /\ NotDriver)
       => /\ hist'.cmds_done = hist.cmds_done
          /\ srv'.vpi_cmd_tx = srv.vpi_cmd_tx
          /\ srv'.vpi_rx_bytes \in {srv.vpi_rx_bytes, 0}
          /\ srv'.minimal_rx_bytes = srv.minimal_rx_bytes
          /\ (srv'.client_sock >= 0 => sock'.rx.len >= sock.rx.len)]_vars

\* part of a response went out, the rest waits for room, and the next frame has
\* arrived
C29_Witness ==
    /\ srv.client_sock >= 0 /\ srv.vpi_tx_pending /\ srv.vpi_tx_bytes > 0
    /\ sock.tx_space = 0 /\ sock.rx.len > 0

\* the bytes of the frame being received, as the client wrote them: what is in
\* vpi_cmd_rx already, then what has arrived, then what is still in flight
AsWritten ==
    StreamConcat(
        StreamConcat([len |-> srv.vpi_rx_bytes,
                      data |-> Memcpy(ZeroBuf, 0, srv.vpi_cmd_rx, 0, srv.vpi_rx_bytes)],
                     sock.rx),
        sock.net)

\* the command a 1036-byte packet decodes to when it is read in one piece
DecodeFrame(buf) ==
    [dialect |-> "full", op |-> le32_to_host(buf, 0),
     nb_bits |-> le32_to_host(buf, OFF_NB_BITS),
     tms |-> (Get(buf, OFF_BUFFER_OUT) \div 2) % 2,
     tdi |-> Get(buf, OFF_BUFFER_OUT) % 2,
     out |-> Memcpy(ZeroBuf, 0, buf, OFF_BUFFER_OUT, BUF_SIZE)]

\* the connection has been served in the full dialect and a whole packet is on
\* its way or partly received
OnFullConnection ==
    /\ srv.client_sock >= 0 /\ sock.kind = "full"
    /\ srv.protocol_mode = "PROTO_OPENOCD_VPI" /\ ~srv.vpi_minimal_mode
    /\ hist.cmd.dialect = "full"
    /\ AsWritten.len = VPI_PKT_SIZE

\* C30: on a full connection a packet is decoded to the same command whatever the
\* chunks it arrives in.
C30_SplitFrameSameCommand ==
    [][(DecodedNow /\ OnFullConnection)
       => hist'.cmd = DecodeFrame(AsWritten.data)]_vars

\* the last n bytes the client received, and the first n bytes of a buffer
RxTail(n) == Memcpy(ZeroBuf, 0, sock.client_rx.data, sock.client_rx.len - n, n)

BufHead(buf, n) == Memcpy(ZeroBuf, 0, buf, 0, n)

\* C31: when send() accepts only part of a pending response, what the client has
\* received of it is always its first bytes, in order and once, and once nothing
\* is pending the client holds the whole response: the 1036-byte frame, the
\* legacy TDO byte stream.
C31_PartialSendResumes ==
    srv.client_sock >= 0 =>
        /\ srv.vpi_tx_pending =>
               RxTail(srv.vpi_tx_bytes) = BufHead(srv.vpi_cmd_tx, srv.vpi_tx_bytes)
        /\ srv.scan_state = "SCAN_SENDING_TDO" =>
               RxTail(srv.scan_bytes_sent) = BufHead(srv.scan_tdo_buf, srv.scan_bytes_sent)
        /\ (FullAnswered /\ AllDone) =>
               RxTail(VPI_PKT_SIZE) = BufHead(srv.vpi_cmd_tx, VPI_PKT_SIZE)
        /\ (hist.delivered /\ srv.scan_is_legacy /\ ScanCmd /\ ValidLen
              /\ srv.scan_state = "SCAN_IDLE"
              /\ \/ srv.protocol_mode = "PROTO_LEGACY_8BYTE"
                 \/ srv.vpi_tx_pending /\ srv.vpi_tx_bytes = 0) =>
               RxTail(srv.scan_num_bytes) = BufHead(srv.scan_tdo_buf, srv.scan_num_bytes)

\* a 1036-byte response went out in two pieces and is complete
C31_Witness ==
    FullAnswered /\ AllDone /\ hist.partial /\ SentSince = VPI_PKT_SIZE

(***************************************************************************)
(* Two runs side by side.  srv / sock is a server that lives through      *)
(* several connections; twin is a server constructed anew for the         *)
(* connection being served.  Both get the same bytes from the client, the *)
(* same calls from the driver and the same hardware answers; diverged     *)
(* records that the bytes sent to the client or the requests handed to    *)
(* the driver differed.                                                    *)
(***************************************************************************)
TwinInit ==
    /\ \E msb \in BOOLEAN : srv = JtagVpiServer("PROTO_UNKNOWN", msb, 0)
    /\ sock = NoSocket
    /\ hist = [NoHist EXCEPT !.faults_left = 0]
    /\ smr = NoCall
    /\ twin = [srv |-> JtagVpiServer("PROTO_UNKNOWN", FALSE, 0), sock |-> NoSocket,
               diverged |-> FALSE]
    /\ fn = [op |-> "none"]
    /\ sim = [sim_state |-> "none"]

\* a client connects; the reference server is constructed anew
TwConnect ==
    /\ ~twin.diverged /\ ~srv.ub /\ ~twin.srv.ub
    /\ sock.peer = "none" /\ sock.backlog = 0 /\ srv.client_sock < 0
    /\ hist.conns_left > 0
    /\ \E kind \in {"full", "short"} :
           LET s1 == [sock EXCEPT !.backlog = 1, !.peer = "open", !.kind = kind,
                                  !.tx_space = VPI_PKT_SIZE,
                                  !.client_rx = EmptyStream]
           IN  /\ sock' = s1
               /\ twin' = [twin EXCEPT
                              !.srv = JtagVpiServer("PROTO_UNKNOWN", srv.msb_first, 0),
                              !.sock = s1]
    /\ hist' = [hist EXCEPT !.conns_left = @ - 1]
    /\ UNCHANGED <<srv, smr, fn, sim>>

\* the client writes one frame, which arrives whole in both runs
TwWrite ==
    /\ ~twin.diverged /\ ~srv.ub /\ ~twin.srv.ub
    /\ sock.peer = "open" /\ twin.sock.peer = "open"
    /\ sock.rx.len = 0 /\ twin.sock.rx.len = 0
    /\ hist.cmds_left > 0
    /\ \E f \in Menu(sock.kind) :
           /\ sock' = [sock EXCEPT !.rx = f]
           /\ twin' = [twin EXCEPT !.sock.rx = f]
    /\ hist' = [hist EXCEPT !.cmds_left = @ - 1]
    /\ UNCHANGED <<srv, smr, fn, sim>>

\* the client closes its end
TwClose ==
    /\ ~twin.diverged
    /\ sock.peer = "open" /\ twin.sock.peer = "open"
    /\ sock' = [sock EXCEPT !.peer = "fin"]
    /\ twin' = [twin EXCEPT !.sock.peer = "fin"]
    /\ UNCHANGED <<srv, hist, smr, fn, sim>>

\* the driver calls poll() in both runs
TwPoll ==
    /\ ~twin.diverged /\ ~srv.ub /\ ~twin.srv.ub
    /\ hist.cmds_done < MaxDecoded
    /\ \E w1 \in {poll(World)} :
       \E w2 \in {poll([srv |-> twin.srv, sock |-> twin.sock, hist |-> hist])} :
           /\ srv' = w1.srv /\ sock' = w1.sock /\ hist' = w1.hist
           /\ twin' = [srv |-> w2.srv, sock |-> w2.sock,
                       diverged |-> w1.sock.client_rx # w2.sock.client_rx]
    /\ UNCHANGED <<smr, fn, sim>>

\* the driver calls get_pending_signals() in both runs and answers both alike
TwDriver ==
    /\ ~twin.diverged /\ ~srv.ub /\ ~twin.srv.ub
    /\ Len(hist.handed) < MaxPulses
    /\ LET r1 == get_pending_signals(World)
           r2 == get_pending_signals([srv |-> twin.srv, sock |-> twin.sock,
                                      hist |-> hist])
           same == /\ r1.ok = r2.ok /\ r1.tms = r2.tms /\ r1.tdi = r2.tdi
                   /\ r1.mode_sel = r2.mode_sel /\ r1.tck_pulse = r2.tck_pulse
                   /\ r1.tckc_toggle = r2.tckc_toggle
       IN  /\ r1.ok \/ r2.ok
           /\ \E tdo \in {0, 1} :
                  /\ IF r1.tck_pulse \/ r1.tckc_toggle
                     THEN tdo \in HwAnswers(hist.handed)
                     ELSE tdo = srv.current_tdo
                  /\ LET w1 == update_signals(r1.w, tdo, r1.mode_sel)
                         w2 == update_signals(r2.w, tdo, r2.mode_sel)
                     IN  /\ srv' = w1.srv /\ sock' = w1.sock
                         /\ hist' = [w1.hist EXCEPT !.handed =
                                        Append(@, [tms |-> r1.tms, tdi |-> r1.tdi,
                                                   mode_sel |-> r1.mode_sel,
                                                   tck_pulse |-> r1.tck_pulse,
                                                   tckc_toggle |-> r1.tckc_toggle,
                                                   owner |-> r1.owner, bit |-> r1.bit,
                                                   seq |-> r1.seq, tdo |-> tdo])]
                         /\ twin' = [srv |-> w2.srv, sock |-> w2.sock,
                                     diverged |-> ~same]
    /\ UNCHANGED <<smr, fn, sim>>

TwinNext ==
    \/ TwConnect
    \/ TwWrite
    \/ TwClose
    \/ TwPoll
    \/ TwDriver

TwinSpec == TwinInit /\ [][TwinNext]_vars

\* C32: on every connection the server sends the bytes and hands out the requests
\* that a server constructed anew for that connection sends and hands out, given
\* the same bytes from the client and the same driver.
C32_NoStateAcrossConnections ==
    ~twin.diverged

(***************************************************************************)
(* The pure functions of the OScan1 host side (src/openocd/patched/        *)
(* oscan1.c), of the test client and of the minimal header decoder, each   *)
(* applied to inputs drawn from bounded sets.  fn holds one call: its      *)
(* inputs and, once the function has run, its results.                     *)
(***************************************************************************)
MaxBytes == 2

\* uint8_t oscan1_calc_crc8(const uint8_t *data, size_t len)
oscan1_calc_crc8(data) ==
    LET xor(a, b) == IF a = b THEN 0 ELSE 1
        xor8(x, y) == LET bit(v, i) == (v \div 2^i) % 2
                          t(i) == xor(bit(x, i), bit(y, i)) * 2^i
                      IN  t(0) + t(1) + t(2) + t(3) + t(4) + t(5) + t(6) + t(7)
        shift(crc) == IF crc >= 128 THEN xor8((2 * crc) % 256, 7)
                      ELSE (2 * crc) % 256
        byte(crc) == shift(shift(shift(shift(shift(shift(shift(shift(crc))))))))
        RECURSIVE loop(_, _)
        loop(crc, i) == IF i > Len(data) THEN crc
                        ELSE loop(byte(xor8(crc, data[i])), i + 1)
    IN  loop(0, 1)

\* static uint8_t cjtag_crc8(const uint8_t *data, size_t len)
cjtag_crc8(data) ==
    LET xor(a, b) == IF a = b THEN 0 ELSE 1
        xor8(x, y) == LET bit(v, i) == (v \div 2^i) % 2
                          t(i) == xor(bit(x, i), bit(y, i)) * 2^i
                      IN  t(0) + t(1) + t(2) + t(3) + t(4) + t(5) + t(6) + t(7)
        shift(crc) == IF crc >= 128 THEN xor8((2 * crc) % 256, 7)
                      ELSE (2 * crc) % 256
        byte(crc) == shift(shift(shift(shift(shift(shift(shift(shift(crc))))))))
        RECURSIVE loop(_, _)
        loop(crc, i) == IF i > Len(data) THEN crc
                        ELSE loop(byte(xor8(crc, data[i])), i + 1)
    IN  loop(255, 1)

\* a mutation of oscan1_apply_zero_insertion: the count of ones starts again at
\* every byte
ZeroInsertionPerByte(input) ==
    LET RECURSIVE loop(_, _, _)
        loop(k, ones_count, out) ==
            IF k >= 8 * Len(input) THEN out
            ELSE LET bit_val == (input[(k \div 8) + 1] \div 2^(7 - (k % 8))) % 2
                     ones == IF k % 8 = 0 THEN 0 ELSE ones_count
                 IN  IF bit_val = 1
                     THEN IF ones + 1 = 5
                          THEN loop(k + 1, 0, out \o <<1, 0>>)
                          ELSE loop(k + 1, ones + 1, out \o <<1>>)
                     ELSE loop(k + 1, 0, out \o <<0>>)
        bits == loop(0, 0, <<>>)
    IN  [bits |-> bits, output_len |-> (Len(bits) + 7) \div 8]

\* static void oscan1_apply_zero_insertion(input, input_len, output, output_len):
\* bits is output read MSB-first up to out_idx (bit k is bit 7 - k % 8 of
\* output[k / 8])
oscan1_apply_zero_insertion(input) ==
    LET RECURSIVE loop(_, _, _)
        loop(k, ones_count, out) ==
            IF k >= 8 * Len(input) THEN out
            ELSE LET bit_val == (input[(k \div 8) + 1] \div 2^(7 - (k % 8))) % 2
                 IN  IF bit_val = 1
                     THEN IF ones_count + 1 = 5
                          THEN loop(k + 1, 0, out \o <<1, 0>>)
                          ELSE loop(k + 1, ones_count + 1, out \o <<1>>)
                     ELSE loop(k + 1, 0, out \o <<0>>)
        bits == loop(0, 0, <<>>)
    IN  [bits |-> bits, output_len |-> (Len(bits) + 7) \div 8]

\* a mutation of oscan1_send_jscan_cmd: the parity bit is the inverse
JscanOddParity(cmd, parity_enabled, fail_at) ==
    LET packet5 == 16 + (cmd % 16)
        bit(v, i) == (v \div 2^i) % 2
        parity == 1 - ((bit(packet5, 0) + bit(packet5, 1) + bit(packet5, 2)
                          + bit(packet5, 3) + bit(packet5, 4)) % 2)
        packet == IF parity_enabled THEN 2 * packet5 + parity ELSE packet5
        bit_count == IF parity_enabled THEN 6 ELSE 5
        n == IF fail_at < bit_count THEN fail_at ELSE bit_count
    IN  [sent |-> [j \in 1..n |-> bit(packet, bit_count - j)],
         ret |-> IF fail_at < bit_count THEN "ERROR_FAIL" ELSE "ERROR_OK"]

\* int oscan1_send_jscan_cmd(uint8_t cmd); fail_at is the index of the first
\* edge for which oscan1_send_tckc_tmsc fails, sent the TMSC values of the edges
\* that were sent
oscan1_send_jscan_cmd(cmd, parity_enabled, fail_at) ==
    LET packet5 == 16 + (cmd % 16)
        bit(v, i) == (v \div 2^i) % 2
        parity == (bit(packet5, 0) + bit(packet5, 1) + bit(packet5, 2)
                     + bit(packet5, 3) + bit(packet5, 4)) % 2
        packet == IF parity_enabled THEN 2 * packet5 + parity ELSE packet5
        bit_count == IF parity_enabled THEN 6 ELSE 5
        n == IF fail_at < bit_count THEN fail_at ELSE bit_count
    IN  [sent |-> [j \in 1..n |-> bit(packet, bit_count - j)],
         ret |-> IF fail_at < bit_count THEN "ERROR_FAIL" ELSE "ERROR_OK"]

\* static int oscan1_send_jscan(uint8_t code) of the test client
oscan1_send_jscan(code, fail_at) ==
    LET packet == 16 + (code % 16)
        n == IF fail_at < 5 THEN fail_at ELSE 5
    IN  [sent |-> [j \in 1..n |-> (packet \div 2^(5 - j)) % 2],
         ret |-> IF fail_at < 5 THEN -1 ELSE 0]

FnInit ==
    /\ srv = JtagVpiServer("PROTO_UNKNOWN", FALSE, 0)
    /\ sock = NoSocket
    /\ hist = NoHist
    /\ smr = NoCall
    /\ twin = NoTwin
    /\ sim = [sim_state |-> "none"]
    /\ \/ \E n \in 0..MaxBytes : \E data \in [1..n -> 0..255] :
              fn \in {[op |-> "crc8", data |-> data, done |-> FALSE],
                      [op |-> "zero_insertion", data |-> data, done |-> FALSE]}
       \/ fn = [op |-> "crc8", data |-> <<170, 85, 255>>, done |-> FALSE]
       \/ \E cmd \in 0..255, parity_enabled \in BOOLEAN, fail_at \in 0..6 :
              fn = [op |-> "jscan", cmd |-> cmd, parity_enabled |-> parity_enabled,
                    fail_at |-> fail_at, done |-> FALSE]
       \/ \E L \in 0..MAX_SCAN_BITS, be \in BOOLEAN :
              fn = [op |-> "length", L |-> L, be |-> be, done |-> FALSE]

\* both CRC-8 functions on the same bytes
FnCrc8 ==
    /\ fn.op = "crc8" /\ ~fn.done
    /\ fn' = [op |-> "crc8", data |-> fn.data, done |-> TRUE,
              host |-> oscan1_calc_crc8(fn.data), client |-> cjtag_crc8(fn.data)]
    /\ UNCHANGED <<srv, sock, hist, smr, twin, sim>>

FnZeroInsertion ==
    /\ fn.op = "zero_insertion" /\ ~fn.done
    /\ fn' = [op |-> "zero_insertion", data |-> fn.data, done |-> TRUE,
              out |-> oscan1_apply_zero_insertion(fn.data)]
    /\ UNCHANGED <<srv, sock, hist, smr, twin, sim>>

\* the JScan packet as the host side and as the test client send it
FnJscan ==
    /\ fn.op = "jscan" /\ ~fn.done
    /\ fn' = [op |-> "jscan", cmd |-> fn.cmd, parity_enabled |-> fn.parity_enabled,
              fail_at |-> fn.fail_at, done |-> TRUE,
              host |-> oscan1_send_jscan_cmd(fn.cmd, fn.parity_enabled, fn.fail_at),
              client |-> oscan1_send_jscan(fn.cmd, fn.fail_at)]
    /\ UNCHANGED <<srv, sock, hist, smr, twin, sim>>

\* an 8-byte minimal header whose length field holds L, big- or little-endian
FnLength ==
    /\ fn.op = "length" /\ ~fn.done
    /\ LET L == fn.L
           hdr == IF fn.be
                  THEN Put(Put(Put(Put(ZeroBuf, 4, (L \div 16777216) % 256),
                                   5, (L \div 65536) % 256),
                               6, (L \div 256) % 256), 7, L % 256)
                  ELSE host_to_le32(ZeroBuf, 4, L)
       IN  fn' = [op |-> "length", L |-> L, be |-> fn.be, done |-> TRUE,
                  hdr |-> hdr, nb_bits |-> min_cmd_length(hdr)]
    /\ UNCHANGED <<srv, sock, hist, smr, twin, sim>>

FnNext ==
    \/ FnCrc8
    \/ FnZeroInsertion
    \/ FnJscan
    \/ FnLength

FnSpec == FnInit /\ [][FnNext]_vars

\* C33: both CRC-8 functions return 0x5A for 0xAA, 0x55, 0xFF.
C33_Crc8Vector ==
    (fn.op = "crc8" /\ fn.done /\ fn.data = <<170, 85, 255>>) =>
        fn.host = 90 /\ fn.client = 90

\* C34: the bits written by oscan1_apply_zero_insertion are the input bits, MSB
\* first, with one 0 inserted after every 5 consecutive 1s; they never hold 6
\* consecutive 1s; output_len is the number of bits rounded up to bytes.
C34_ZeroInsertion ==
    (fn.op = "zero_insertion" /\ fn.done) =>
        LET in == [k \in 1..(8 * Len(fn.data)) |->
                      (fn.data[((k - 1) \div 8) + 1] \div 2^(7 - ((k - 1) % 8))) % 2]
            RECURSIVE stuffed(_, _)
            stuffed(bits, run) ==
                IF bits = <<>> THEN <<>>
                ELSE IF Head(bits) = 0 THEN <<0>> \o stuffed(Tail(bits), 0)
                ELSE IF run = 4 THEN <<1, 0>> \o stuffed(Tail(bits), 0)
                ELSE <<1>> \o stuffed(Tail(bits), run + 1)
            out == fn.out.bits
        IN  /\ out = stuffed(in, 0)
            /\ \A i \in 1..(Len(out) - 5) : \E j \in i..(i + 5) : out[j] = 0
            /\ fn.out.output_len * 8 >= Len(out)
            /\ fn.out.output_len * 8 < Len(out) + 8

\* a run of 5 ones that crosses the byte boundary, and two insertions in one call
C34_Witness ==
    /\ fn.op = "zero_insertion" /\ fn.done
    /\ fn.data = <<15, 255>>
    /\ fn.out.output_len = 3

\* C35: oscan1_send_jscan_cmd sends, MSB first, a 1, the 4 low bits of cmd and,
\* with parity enabled, a bit that makes the number of 1s even; 5 bits without
\* parity; it stops with failure at the first edge that fails to send.
C35_JscanPacket ==
    (fn.op = "jscan" /\ fn.done) =>
        LET c(i) == (fn.cmd \div 2^i) % 2
            five == <<1, c(3), c(2), c(1), c(0)>>
            ones == 1 + c(3) + c(2) + c(1) + c(0)
            whole == IF fn.parity_enabled THEN five \o <<ones % 2>> ELSE five
            n == IF fn.fail_at < Len(whole) THEN fn.fail_at ELSE Len(whole)
        IN  /\ fn.host.sent = SubSeq(whole, 1, n)
            /\ fn.host.ret = "ERROR_OK" <=> fn.fail_at >= Len(whole)
            /\ fn.parity_enabled =>
                   (ones + whole[6]) % 2 = 0 /\ Len(whole) = 6

\* all 6 bits of a packet sent whose first five hold an odd number of 1s
C35_Witness ==
    /\ fn.op = "jscan" /\ fn.done
    /\ fn.parity_enabled /\ fn.cmd = 3 /\ fn.host.ret = "ERROR_OK"
    /\ fn.host.sent = <<1, 0, 0, 1, 1, 1>>

\* C38: a length field that holds L in 0..4096, big- or little-endian, is decoded
\* to L.
C38_LengthEitherEndian ==
    (fn.op = "length" /\ fn.done) => fn.nb_bits = fn.L

\* a little-endian 4096 and a big-endian 1
C38_Witness ==
    /\ fn.op = "length" /\ fn.done
    /\ \/ ~fn.be /\ fn.L = 4096 /\ Get(fn.hdr, 5) = 16
       \/ fn.be /\ fn.L = 1 /\ Get(fn.hdr, 7) = 1

\* C36: scan_state changes only along ReceivingTms -> ReceivingTdi -> Processing
\* -> SendingTdo -> Idle when the scan's bytes follow the command on the raw
\* connection, only between Idle and Processing for a scan in a 1036-byte packet,
\* and otherwise only to Idle when the connection is torn down.
C36_ScanStatePath ==
    [][LET StreamedPath == {<<"SCAN_IDLE", "SCAN_RECEIVING_TMS">>,
                            <<"SCAN_RECEIVING_TMS", "SCAN_RECEIVING_TDI">>,
                            <<"SCAN_RECEIVING_TDI", "SCAN_PROCESSING">>,
                            <<"SCAN_PROCESSING", "SCAN_SENDING_TDO">>,
                            <<"SCAN_SENDING_TDO", "SCAN_IDLE">>}
           PacketPath == {<<"SCAN_IDLE", "SCAN_PROCESSING">>,
                          <<"SCAN_PROCESSING", "SCAN_IDLE">>}
       IN  srv'.scan_state # srv.scan_state =>
              \/ /\ hist'.cmd.dialect \in {"legacy", "minimal"}
                 /\ <<srv.scan_state, srv'.scan_state>> \in StreamedPath
              \/ /\ hist'.cmd.dialect = "full"
                 /\ <<srv.scan_state, srv'.scan_state>> \in PacketPath
              \/ /\ srv'.scan_state = "SCAN_IDLE"
                 /\ srv.client_sock >= 0 /\ srv'.client_sock < 0]_vars

\* C37: no access to the 512-byte scan and TMS-sequence buffers is made at an
\* offset of 512 or more (the highest offset an engine uses is that of its last
\* bit), and every byte counter is at most the size of its frame.
C37_OffsetsInBounds ==
    /\ ~srv.ub
    /\ srv.scan_state # "SCAN_IDLE" =>
           /\ srv.scan_num_bytes <= BUF_SIZE
           /\ srv.scan_bit_index <= srv.scan_num_bits
           /\ (srv.scan_num_bits + 7) \div 8 <= BUF_SIZE
    /\ srv.tms_seq_active =>
           /\ srv.tms_seq_bit_index <= srv.tms_seq_num_bits
           /\ (srv.tms_seq_num_bits + 7) \div 8 <= BUF_SIZE
    /\ srv.cmd_bytes_received <= MIN_CMD_SIZE
    /\ srv.minimal_rx_bytes <= MIN_CMD_SIZE
    /\ srv.vpi_rx_bytes <= VPI_PKT_SIZE
    /\ srv.vpi_tx_bytes <= VPI_PKT_SIZE
    /\ srv.scan_bytes_received <= srv.scan_num_bytes
    /\ srv.scan_bytes_sent <= srv.scan_num_bytes

(***************************************************************************)
(* One connection on which nothing goes wrong for good: the client writes *)
(* a SCAN of 9 bits, the payload its dialect sends after the header, and   *)
(* one more command that is not a scan; it never closes.  poll() keeps     *)
(* being called, the driver serves every request, the network delivers     *)
(* what is in flight and a client that stopped reading reads again.        *)
(***************************************************************************)
LiveCmds == 3

LiveInit ==
    /\ \E proto \in ProtocolMode, msb \in BOOLEAN :
           srv = JtagVpiServer(proto, msb, 0)
    /\ sock = NoSocket
    /\ hist = [NoHist EXCEPT !.cmds_left = LiveCmds, !.conns_left = 1]
    /\ smr = NoCall
    /\ twin = NoTwin
    /\ fn = [op |-> "none"]
    /\ sim = [sim_state |-> "none"]

\* the client writes the SCAN, its payload, and the command after it
LiveWrite ==
    /\ sock.peer = "open" /\ sock.net.len = 0 /\ sock.rx.len = 0
    /\ hist.cmds_left > 0
    /\ \E f \in Menu(sock.kind) :
           /\ IF sock.kind = "full"
              THEN \/ hist.cmds_left = LiveCmds /\ f = Packet(2, TdiBytes, 9)
                   \/ hist.cmds_left <= LiveCmds - 2
                        /\ f \in {Packet(0, <<>>, 0), Packet(1, <<1>>, 2)}
              ELSE \/ hist.cmds_left = LiveCmds /\ f = Header8(2, 9)
                   \/ hist.cmds_left = LiveCmds - 1 /\ f = StreamOf(TmsTdiBytes)
                   \/ hist.cmds_left <= LiveCmds - 2
                        /\ f \in {Header8(0, 0), Header8(3, 0)}
           /\ sock' = [sock EXCEPT !.net = f]
    /\ hist' = [hist EXCEPT !.cmds_left =
                   IF sock.kind = "full" /\ @ = LiveCmds THEN @ - 2 ELSE @ - 1]
    /\ UNCHANGED <<srv, side>>

LivePoll == ~srv.ub /\ \E w \in {poll(World)} : Becomes(w)

LiveNext ==
    \/ ClientConnect
    \/ LiveWrite
    \/ Deliver
    \/ DeliverPart
    \/ ClientStall
    \/ ClientDrain
    \/ LivePoll
    \/ DriverStep

\* ENABLED <<LivePoll>>_vars: a call of poll() would change something
PollWouldAct == ~srv.ub /\ poll(World) # World

\* weak fairness of LivePoll (WF_vars(LivePoll) with its ENABLED written out),
\* of the driver, the client's writes, the network and the client's reads
LiveSpec ==
    /\ LiveInit /\ [][LiveNext]_vars
    /\ ([]<>(~PollWouldAct) \/ []<><<LivePoll>>_vars)
    /\ WF_vars(DriverStep)
    /\ WF_vars(LiveWrite) /\ WF_vars(Deliver) /\ WF_vars(ClientDrain)

\* the bytes the server owes the client for the first SCAN of the connection
ScanReply ==
    IF sock.kind = "full" THEN VPI_PKT_SIZE
    ELSE IF srv.protocol_mode = "PROTO_LEGACY_8BYTE" THEN 2
    ELSE MIN_RESP_SIZE + 2

SYSTEM_RESET_CYCLES == 50
JTAG_RESET_TCK_CYCLES == 5
TCK_CLK_RATIO == 4

SimInit ==
    /\ \E proto \in ProtocolMode : srv = JtagVpiServer(proto, FALSE, 0)
    /\ sock = NoSocket
    /\ hist = [NoHist EXCEPT !.faults_left = 0]
    /\ smr = NoCall
    /\ twin = NoTwin
    /\ fn = [op |-> "none"]
    /\ sim = [sim_state |-> "SIM_RESET_SYSTEM", reset_cycle_count |-> 0,
              reset_tck_cycles |-> 0, tck_clk_counter |-> 0,
              tck_pulse_phase |-> FALSE, clk_div_counter |-> 0,
              active_mode |-> 0, ran |-> "none", polled |-> FALSE]

\* case SIM_RESET_SYSTEM, SIM_RESET_JTAG_INIT, SIM_RESET_JTAG_PULSE
SimReset ==
    /\ sim.sim_state \in {"SIM_RESET_SYSTEM", "SIM_RESET_JTAG_INIT",
                          "SIM_RESET_JTAG_PULSE"}
    /\ sim' =
         LET t == [sim EXCEPT !.ran = sim.sim_state, !.polled = FALSE] IN
         CASE sim.sim_state = "SIM_RESET_SYSTEM" ->
                IF sim.reset_cycle_count + 1 >= SYSTEM_RESET_CYCLES
                THEN [t EXCEPT !.sim_state = "SIM_RESET_JTAG_INIT",
                               !.reset_cycle_count = 0]
                ELSE [t EXCEPT !.reset_cycle_count = @ + 1]
           [] sim.sim_state = "SIM_RESET_JTAG_INIT" ->
                [t EXCEPT !.reset_tck_cycles = 0,
                          !.sim_state = "SIM_RESET_JTAG_PULSE"]
           [] OTHER ->
                IF sim.tck_clk_counter + 1 < TCK_CLK_RATIO
                THEN [t EXCEPT !.tck_clk_counter = @ + 1]
                ELSE IF ~sim.tck_pulse_phase
                THEN [t EXCEPT !.tck_clk_counter = 0, !.tck_pulse_phase = TRUE]
                ELSE [t EXCEPT !.tck_clk_counter = 0, !.tck_pulse_phase = FALSE,
                               !.reset_tck_cycles = @ + 1,
                               !.sim_state =
                                   IF sim.reset_tck_cycles + 1 >= JTAG_RESET_TCK_CYCLES
                                   THEN "SIM_IDLE" ELSE @]
    /\ UNCHANGED <<srv, sock, hist, smr, twin, fn>>

\* case SIM_IDLE: poll(), then get_pending_signals()
SimIdle ==
    /\ sim.sim_state = "SIM_IDLE" /\ ~srv.ub
    /\ \E w \in {poll(World)} : \E r \in {get_pending_signals(w)} :
           /\ srv' = r.w.srv /\ sock' = r.w.sock /\ hist' = r.w.hist
           /\ sim' = [sim EXCEPT !.ran = "SIM_IDLE", !.polled = TRUE,
                                 !.sim_state = IF r.ok THEN "SIM_VPI_ACTIVE" ELSE @]
    /\ UNCHANGED <<smr, twin, fn>>

\* case SIM_VPI_ACTIVE: update_signals(), then get_pending_signals() if a client
\* is connected
SimVpiActive ==
    /\ sim.sim_state = "SIM_VPI_ACTIVE"
    /\ \E tdo_value \in {0, 1} :
       \E w \in {update_signals(World, tdo_value, sim.active_mode)} :
       \E r \in {get_pending_signals(w)} :
           LET client_connected == w.srv.client_sock >= 0
               v == IF client_connected THEN r.w ELSE w
           IN  /\ srv' = v.srv /\ sock' = v.sock /\ hist' = v.hist
               /\ sim' = [sim EXCEPT !.ran = "SIM_VPI_ACTIVE", !.polled = FALSE,
                             !.sim_state = IF client_connected /\ r.ok
                                           THEN "SIM_VPI_PROCESSING" ELSE @]
    /\ UNCHANGED <<smr, twin, fn>>

\* case SIM_VPI_PROCESSING: get_pending_signals() if a client is connected; every
\* fourth time a request is applied to the pins and update_signals() reports TDO
SimVpiProcessing ==
    /\ sim.sim_state = "SIM_VPI_PROCESSING"
    /\ \E r \in {get_pending_signals(World)} : \E tdo_value \in {0, 1} :
           LET client_connected == srv.client_sock >= 0
               has_pending_signals == client_connected /\ r.ok
               process_vpi_this_cycle == sim.clk_div_counter = 0
               v == IF client_connected THEN r.w ELSE World
               applied == has_pending_signals /\ process_vpi_this_cycle
               u == IF applied /\ (r.tckc_toggle \/ r.tck_pulse)
                    THEN update_signals(v, tdo_value, r.mode_sel)
                    ELSE v
           IN  /\ (~(applied /\ (r.tckc_toggle \/ r.tck_pulse)) => tdo_value = 0)
               /\ srv' = u.srv /\ sock' = u.sock /\ hist' = u.hist
               /\ sim' = [sim EXCEPT !.ran = "SIM_VPI_PROCESSING", !.polled = FALSE,
                             !.clk_div_counter = (@ + 1) % TCK_CLK_RATIO,
                             !.active_mode = IF applied THEN r.mode_sel ELSE @,
                             !.sim_state = "SIM_VPI_ACTIVE"]
    /\ UNCHANGED <<smr, twin, fn>>

SimNext ==
    \/ ClientConnect
    \/ ClientWrite
    \/ Deliver
    \/ SimReset
    \/ SimIdle
    \/ SimVpiActive
    \/ SimVpiProcessing

SimSpec == SimInit /\ [][SimNext]_vars

\* C40: every iteration of the main loop after reset calls poll(), also after the
\* first pending request has been observed.
C40_PollEveryStep ==
    sim.ran \in {"SIM_IDLE", "SIM_VPI_ACTIVE", "SIM_VPI_PROCESSING"} => sim.polled

====
